---- MODULE Spec2Model ----
(***************************************************************************)
(* A model of reapyr (src/reapyr/__init__.py): the ComponentContext        *)
(* reconciler (hook slots, keyed child matching, invalidation,             *)
(* materialize), the WorkLoop scheduler and the root driver _do_render.    *)
(*                                                                         *)
(* The engine's methods are operators that take a world record w (the      *)
(* heap of contexts plus the work loop's fields) and return the world      *)
(* after the call; a raised exception is the field err, which every        *)
(* caller propagates the way Python unwinds.  Python's 0-based cursors     *)
(* keep their values; a list element at Python index i is element i + 1    *)
(* of the sequence.                                                        *)
(***************************************************************************)
EXTENDS Integers, Sequences, FiniteSets, TLC

VARIABLES
    contexts,      \* the heap of ComponentContext objects, by allocation order
    root_context,  \* the global _root_context: None or a context
    queue,         \* WorkLoop._queue
    event,         \* WorkLoop._event is set
    running,       \* WorkLoop._running
    pc,            \* where run_forever stands
    last           \* the last operation: its name, arguments, result and log

vars == <<contexts, root_context, queue, event, running, pc, last>>

----------------------------------------------------------------------------
(* Bounds of the model *)

\* how many ComponentContext objects are ever allocated
MaxCtx == 5

\* the longest queue to which the outside still pushes
MaxQueue == 2

\* how many use_state and how many use_ref calls one render makes at most
MaxHooks == 2

\* a directly called materialize starts with at most this many callbacks queued
MaxPending == 5

----------------------------------------------------------------------------
(* Values *)

\* parent_context = None, _root_context = None
None == 0

NoErr == "ok"

\* the values a state slot takes (use_state initial values and setter arguments)
StateValues == {0, 1}
\* the values the state of a Faulty takes: what its render does
FaultValues == {0, 1, 2, 3}
\* the values the root component's count takes
CountValues == {0, 1, 2}
\* the prop of the constant child
ConstProp == 42

Keys == {"", "a", "b"}

\* the classes of the user components; ItemAlias is a second class whose
\* __qualname__ is Item as well; Panel is a root with effects of its own;
\* Faulty is a root whose renders can fail
Types == {"App", "List", "Item", "Bump", "ItemAlias", "Panel", "Faulty"}

Qualname(type) == IF type = "ItemAlias" THEN "Item" ELSE type

\* _materialized = None
NoTree ==
    [kind |-> "None", type |-> "None", key |-> "", count |-> 0, oid |-> 0,
     text |-> <<>>, children |-> <<>>]

Text(t) ==
    [kind |-> "Primitive", type |-> "Text", key |-> "", count |-> 0, oid |-> 0,
     text |-> t, children |-> <<>>]

Box(ch) ==
    [kind |-> "Primitive", type |-> "Box", key |-> "", count |-> 0, oid |-> 0,
     text |-> <<>>, children |-> ch]

\* a Component value: its class, its key and its one prop; oid tells two
\* objects of equal value apart and takes no part in equality
Comp(type, key, count, oid) ==
    [kind |-> "Component", type |-> type, key |-> key, count |-> count,
     oid |-> oid, text |-> <<>>, children |-> <<>>]

\* what a render returns that is neither a Primitive nor a Component
Unrenderable == [NoTree EXCEPT !.kind = "Other"]

IsPrimitive(elem) == elem.kind = "Primitive"
IsComponent(elem) == elem.kind = "Component"

\* dataclass __eq__ of two elements: same class and equal fields
SameValue(a, b) == [a EXCEPT !.oid = 0] = [b EXCEPT !.oid = 0]

\* the callback closure that a render hands to use_effect: the context it
\* was made in and the values it captured
Effect(c, captured) == [kind |-> "effect", ctx |-> c, arg |-> captured, index |-> 0, value |-> 0]

EmptyMap == [tk \in {} |-> <<>>]

MapGet(m, tk) == IF tk \in DOMAIN m THEN m[tk] ELSE <<>>

MapPut(m, tk, v) == [x \in (DOMAIN m) \cup {tk} |-> IF x = tk THEN v ELSE m[x]]

\* ComponentContext(component, parent_context=parent)
NewContext(component, parent) ==
    [component |-> component,
     parent_context |-> parent,
     invalidated |-> TRUE,
     materialized |-> NoTree,
     effect_list |-> <<>>, effect_index |-> 0,
     ref_list |-> <<>>, ref_index |-> 0,
     state_list |-> <<>>, state_index |-> 0,
     subcontext_map |-> EmptyMap,
     prev_subcontext_map |-> EmptyMap]

\* the world a call starts in: the program's state, no exception, empty log
World ==
    [cx |-> contexts, queue |-> queue, event |-> event, running |-> running,
     err |-> NoErr,
     wakes |-> 0, sets |-> <<>>, rendered |-> <<>>, ran |-> <<>>, depth |-> 0,
     finalized |-> <<>>, stops |-> <<>>, begun |-> <<>>]

Raise(w, e) == [w EXCEPT !.err = e]

----------------------------------------------------------------------------
(* WorkLoop *)

wake(w) == [w EXCEPT !.event = TRUE, !.wakes = @ + 1]

\* a push_work that posts no wake
push_work_silent(w, work) == [w EXCEPT !.queue = Append(@, work)]

\* a push_work that puts the callback at the head of the queue
push_work_front(w, work) == wake([w EXCEPT !.queue = <<work>> \o @])

push_work(w, work) == wake([w EXCEPT !.queue = Append(@, work)])

\* a stop() that posts no wake
stop_silent(w) == [w EXCEPT !.running = FALSE, !.stops = Append(@, Len(w.queue))]

\* stops logs how many callbacks were queued when stop() was called
stop(w) == wake([w EXCEPT !.running = FALSE, !.stops = Append(@, Len(w.queue))])

----------------------------------------------------------------------------
(* ComponentContext: invalidation, props, hooks *)

RECURSIVE invalidate_always(_, _, _)
\* an _invalidate that goes up whatever propagate says
invalidate_always(w, c, propagate) ==
    LET w1 == [w EXCEPT !.cx[c].invalidated = TRUE]
        p == w.cx[c].parent_context
    IN  IF p # None THEN invalidate_always(w1, p, propagate) ELSE w1

\* an _invalidate that goes up to the parent and no further
invalidate_one_up(w, c, propagate) ==
    LET w1 == [w EXCEPT !.cx[c].invalidated = TRUE]
        p == w.cx[c].parent_context
    IN  IF propagate /\ p # None THEN [w1 EXCEPT !.cx[p].invalidated = TRUE] ELSE w1

RECURSIVE invalidate(_, _, _)
invalidate(w, c, propagate) ==
    LET w1 == [w EXCEPT !.cx[c].invalidated = TRUE]
        p == w.cx[c].parent_context
    IN  IF propagate /\ p # None THEN invalidate(w1, p, TRUE) ELSE w1

\* a _begin_materialization that drops the slots the last render left unused
begin_materialization_truncating(w, c) ==
    [w EXCEPT !.cx[c] =
        [@ EXCEPT !.invalidated = FALSE,
                  !.effect_list = SubSeq(@, 1, w.cx[c].effect_index),
                  !.ref_list = SubSeq(@, 1, w.cx[c].ref_index),
                  !.state_list = SubSeq(@, 1, w.cx[c].state_index),
                  !.effect_index = 0,
                  !.ref_index = 0,
                  !.state_index = 0,
                  !.prev_subcontext_map = w.cx[c].subcontext_map,
                  !.subcontext_map = EmptyMap]]

\* a _begin_materialization that leaves the hook cursors where they are
begin_materialization_unreset(w, c) ==
    [w EXCEPT !.cx[c] =
        [@ EXCEPT !.invalidated = FALSE,
                  !.prev_subcontext_map = w.cx[c].subcontext_map,
                  !.subcontext_map = EmptyMap]]

begin_materialization(w, c) ==
    [w EXCEPT !.cx[c] =
        [@ EXCEPT !.invalidated = FALSE,
                  !.effect_index = 0,
                  !.ref_index = 0,
                  !.state_index = 0,
                  !.prev_subcontext_map = w.cx[c].subcontext_map,
                  !.subcontext_map = EmptyMap]]

\* a _set_props that bubbles the invalidation up
set_props_propagating(w, c, new_component) ==
    LET old == w.cx[c].component
    IN  IF ~SameValue(new_component, old)
        THEN IF new_component.type # old.type
             THEN Raise(w, "TypeError")
             ELSE IF new_component.key # old.key
                  THEN Raise(w, "ValueError")
                  ELSE invalidate([w EXCEPT !.cx[c].component = new_component],
                                  c, TRUE)
        ELSE w

\* a _set_props that rebinds and leaves the invalidated flag alone
set_props_unmarked(w, c, new_component) ==
    LET old == w.cx[c].component
    IN  IF ~SameValue(new_component, old)
        THEN IF new_component.type # old.type
             THEN Raise(w, "TypeError")
             ELSE IF new_component.key # old.key
                  THEN Raise(w, "ValueError")
                  ELSE [w EXCEPT !.cx[c].component = new_component]
        ELSE w

\* a _set_props that binds the new component before it checks it
set_props_unchecked_bind(w, c, new_component) ==
    LET old == w.cx[c].component
        w1 == invalidate([w EXCEPT !.cx[c].component = new_component], c, FALSE)
    IN  IF ~SameValue(new_component, old)
        THEN IF new_component.type # old.type
             THEN Raise(w1, "TypeError")
             ELSE IF new_component.key # old.key
                  THEN Raise(w1, "ValueError")
                  ELSE w1
        ELSE w

set_props(w, c, new_component) ==
    LET old == w.cx[c].component
    IN  IF ~SameValue(new_component, old)
        THEN IF new_component.type # old.type
             THEN Raise(w, "TypeError")
             ELSE IF new_component.key # old.key
                  THEN Raise(w, "ValueError")
                  ELSE invalidate([w EXCEPT !.cx[c].component = new_component],
                                  c, FALSE)
        ELSE w

\* a setter that marks only its own context stale
set_state_local(w, c, index, new_value) ==
    wake(invalidate([w EXCEPT !.cx[c].state_list[index + 1] = new_value,
                              !.sets = Append(@, c)], c, FALSE))

\* a setter that posts no wake
set_state_silent(w, c, index, new_value) ==
    invalidate([w EXCEPT !.cx[c].state_list[index + 1] = new_value,
                         !.sets = Append(@, c)], c, TRUE)

\* the setter that use_state returns, called with new_value
set_state(w, c, index, new_value) ==
    wake(invalidate([w EXCEPT !.cx[c].state_list[index + 1] = new_value,
                              !.sets = Append(@, c)], c, TRUE))

\* the callbacks that code outside the engine pushes: one that does nothing,
\* one that calls stop(), one that pushes a callback, one that calls a setter
Noop == [kind |-> "noop", ctx |-> None, arg |-> <<>>, index |-> 0, value |-> 0]
CallStop == [kind |-> "call_stop", ctx |-> None, arg |-> <<>>, index |-> 0, value |-> 0]
CallPush == [kind |-> "call_push", ctx |-> None, arg |-> <<>>, index |-> 0, value |-> 0]
CallSet(c, index, value) ==
    [kind |-> "call_set", ctx |-> c, arg |-> <<>>, index |-> index, value |-> value]

\* work(): the callback is called; the body of an effect only records the call
run_work(w, work) ==
    LET w1 == [w EXCEPT !.ran = Append(@, [work |-> work, depth |-> w.depth])]
    IN  CASE work.kind = "call_set" -> set_state(w1, work.ctx, work.index, work.value)
          [] work.kind = "call_stop" -> stop(w1)
          [] work.kind = "call_push" -> push_work(w1, Noop)
          [] OTHER -> w1

\* (index tells the callbacks of one render apart: the position of the
\* use_effect call that the closure is handed to)
\* a use_effect that calls the callback on the spot
use_effect_inline(w, c, effect, deps) ==
    LET index == w.cx[c].effect_index
        w1 == [w EXCEPT !.cx[c].effect_index = @ + 1]
    IN  IF index >= Len(w.cx[c].effect_list)
        THEN run_work([w1 EXCEPT !.cx[c].effect_list =
                           Append(@, [effect |-> effect, deps |-> deps])], effect)
        ELSE IF w.cx[c].effect_list[index + 1].deps # deps
             THEN run_work([w1 EXCEPT !.cx[c].effect_list[index + 1] =
                                [effect |-> effect, deps |-> deps]], effect)
             ELSE w1

\* a use_effect that stores and enqueues whatever the dependencies are
use_effect_always(w, c, effect, deps) ==
    LET index == w.cx[c].effect_index
        w1 == [w EXCEPT !.cx[c].effect_index = @ + 1]
    IN  IF index >= Len(w.cx[c].effect_list)
        THEN push_work([w1 EXCEPT !.cx[c].effect_list =
                            Append(@, [effect |-> effect, deps |-> deps])], effect)
        ELSE push_work([w1 EXCEPT !.cx[c].effect_list[index + 1] =
                            [effect |-> effect, deps |-> deps]], effect)

use_effect(w, c, effect, deps) ==
    LET index == w.cx[c].effect_index
        w1 == [w EXCEPT !.cx[c].effect_index = @ + 1]
        list == w.cx[c].effect_list
    IN  IF index >= Len(list)
        THEN LET w2 == [w1 EXCEPT !.cx[c].effect_list =
                            Append(@, [effect |-> effect, deps |-> deps])]
             IN  IF w2.cx[c].effect_index = Len(w2.cx[c].effect_list)
                 THEN push_work(w2, effect)
                 ELSE Raise(w2, "AssertionError")
        ELSE IF list[index + 1].deps # deps
             THEN push_work([w1 EXCEPT !.cx[c].effect_list[index + 1] =
                                [effect |-> effect, deps |-> deps]], effect)
             ELSE w1

\* Ref(current): a cell object; oid tells the objects apart
Ref(oid, current) == [oid |-> oid, current |-> current]

\* a use_ref that makes a new cell on every call
use_ref_realloc(w, c, initial_value) ==
    LET i == w.cx[c].ref_index
        list == w.cx[c].ref_list
        list1 == IF i >= Len(list)
                 THEN Append(list, Ref(Len(list) + 1, initial_value))
                 ELSE [list EXCEPT ![i + 1] = Ref(@.oid + Len(list), initial_value)]
    IN  [w |-> [w EXCEPT !.cx[c].ref_list = list1, !.cx[c].ref_index = @ + 1],
         ref |-> list1[i + 1].oid]

\* returns the world and the cell (its oid); the cells of a context are
\* numbered in the order in which they were made
use_ref(w, c, initial_value) ==
    LET i == w.cx[c].ref_index
        list == w.cx[c].ref_list
        list1 == IF i >= Len(list)
                 THEN Append(list, Ref(Len(list) + 1, initial_value))
                 ELSE list
    IN  [w |-> [w EXCEPT !.cx[c].ref_list = list1, !.cx[c].ref_index = @ + 1],
         ref |-> list1[i + 1].oid]

\* a use_state that stores its argument on every call
use_state_reinit(w, c, initial_value) ==
    LET index == w.cx[c].state_index
        list == w.cx[c].state_list
        list1 == IF index >= Len(list)
                 THEN Append(list, initial_value)
                 ELSE [list EXCEPT ![index + 1] = initial_value]
    IN  [w |-> [w EXCEPT !.cx[c].state_list = list1, !.cx[c].state_index = @ + 1],
         value |-> initial_value, index |-> index]

\* returns the world, the slot's value and the index the setter is closed over
use_state(w, c, initial_value) ==
    LET index == w.cx[c].state_index
        w1 == [w EXCEPT !.cx[c].state_index = @ + 1]
        w2 == IF index >= Len(w.cx[c].state_list)
              THEN LET w3 == [w1 EXCEPT !.cx[c].state_list = Append(@, initial_value)]
                   IN  IF w3.cx[c].state_index = Len(w3.cx[c].state_list)
                       THEN w3
                       ELSE Raise(w3, "AssertionError")
              ELSE w1
    IN  [w |-> w2, value |-> w2.cx[c].state_list[index + 1], index |-> index]

----------------------------------------------------------------------------
(* ComponentContext: keyed child matching *)

\* a typekey that leaves the key out
get_subcontext_typekey_keyless(subcomponent) ==
    <<Qualname(subcomponent.type), "">>

get_subcontext_typekey(subcomponent) ==
    <<Qualname(subcomponent.type), subcomponent.key>>

\* an _init_subcontext that takes the previous bucket from its far end
init_subcontext_from_end(w, c, subcomponent) ==
    LET typekey == get_subcontext_typekey(subcomponent)
        subcontexts == MapGet(w.cx[c].subcontext_map, typekey)
        prev_subcontexts == MapGet(w.cx[c].prev_subcontext_map, typekey)
        w0 == [w EXCEPT !.cx[c].subcontext_map = MapPut(@, typekey, subcontexts)]
        \* subcontexts.append(subcontext), unless _set_props raised
        appended(w1, subcontext) ==
            IF w1.err # NoErr
            THEN [w |-> w1, sub |-> None]
            ELSE [w |-> [w1 EXCEPT !.cx[c].subcontext_map[typekey] =
                                Append(@, subcontext)],
                  sub |-> subcontext]
        \* subcontext._set_props(subcomponent)
        reused(subcontext) ==
            appended(set_props(w0, subcontext, subcomponent), subcontext)
    IN  IF Len(subcontexts) < Len(prev_subcontexts)
        THEN reused(prev_subcontexts[Len(prev_subcontexts) - Len(subcontexts)])
        ELSE IF Len(w.cx) >= MaxCtx
             THEN [w |-> Raise(w0, "Overflow"), sub |-> None]
             ELSE appended([w0 EXCEPT !.cx = Append(@, NewContext(subcomponent, c))],
                           Len(w.cx) + 1)

\* returns the world and the subcontext; the bucket of _subcontext_map exists
\* from the lookup on, also when _set_props raises
init_subcontext(w, c, subcomponent) ==
    LET typekey == get_subcontext_typekey(subcomponent)
        subcontexts == MapGet(w.cx[c].subcontext_map, typekey)
        prev_subcontexts == MapGet(w.cx[c].prev_subcontext_map, typekey)
        w0 == [w EXCEPT !.cx[c].subcontext_map = MapPut(@, typekey, subcontexts)]
        \* subcontexts.append(subcontext), unless _set_props raised
        appended(w1, subcontext) ==
            IF w1.err # NoErr
            THEN [w |-> w1, sub |-> None]
            ELSE [w |-> [w1 EXCEPT !.cx[c].subcontext_map[typekey] =
                                Append(@, subcontext)],
                  sub |-> subcontext]
        \* subcontext._set_props(subcomponent)
        reused(subcontext) ==
            appended(set_props(w0, subcontext, subcomponent), subcontext)
    IN  IF Len(subcontexts) < Len(prev_subcontexts)
        THEN reused(prev_subcontexts[Len(subcontexts) + 1])
        ELSE IF Len(w.cx) >= MaxCtx
             THEN [w |-> Raise(w0, "Overflow"), sub |-> None]
             ELSE appended([w0 EXCEPT !.cx = Append(@, NewContext(subcomponent, c))],
                           Len(w.cx) + 1)

\* the previous-generation contexts that this render did not claim
Unclaimed(cxs, c) ==
    LET prev == cxs[c].prev_subcontext_map
        cur == cxs[c].subcontext_map
    IN  UNION {{prev[tk][i] : i \in (Len(MapGet(cur, tk)) + 1)..Len(prev[tk])} :
               tk \in DOMAIN prev}

\* the order-preservation assertion: the dataclass __eq__ of the two contexts
OrderPreserved(cxs, c) ==
    LET prev == cxs[c].prev_subcontext_map
        cur == cxs[c].subcontext_map
    IN  \A tk \in DOMAIN prev :
            \A i \in 1..Len(prev[tk]) :
                i <= Len(MapGet(cur, tk)) =>
                    \/ MapGet(cur, tk)[i] = prev[tk][i]
                    \/ cxs[MapGet(cur, tk)[i]] = cxs[prev[tk][i]]

\* a finalization that looks only at the buckets the render requested again
finalize_subcontexts_requested(w, c) ==
    LET prev == w.cx[c].prev_subcontext_map
        cur == w.cx[c].subcontext_map
        removed == UNION {{prev[tk][i] : i \in (Len(cur[tk]) + 1)..Len(prev[tk])} :
                          tk \in (DOMAIN prev) \cap (DOMAIN cur)}
        cx1 == [i \in DOMAIN w.cx |->
                   IF i \in removed
                   THEN [w.cx[i] EXCEPT !.parent_context = None]
                   ELSE w.cx[i]]
    IN  [w EXCEPT !.cx = [cx1 EXCEPT ![c].prev_subcontext_map = EmptyMap]]

\* a finalization that cuts the unclaimed contexts' parent links and leaves
\* them in the current child map, behind the claimed ones
finalize_subcontexts_keeping(w, c) ==
    LET prev == w.cx[c].prev_subcontext_map
        cur == w.cx[c].subcontext_map
        removed == Unclaimed(w.cx, c)
        cx1 == [i \in DOMAIN w.cx |->
                   IF i \in removed
                   THEN [w.cx[i] EXCEPT !.parent_context = None]
                   ELSE w.cx[i]]
        kept == [tk \in (DOMAIN prev) \cup (DOMAIN cur) |->
                    MapGet(cur, tk) \o
                    SubSeq(MapGet(prev, tk), Len(MapGet(cur, tk)) + 1,
                           Len(MapGet(prev, tk)))]
    IN  [w EXCEPT !.cx = [cx1 EXCEPT ![c].prev_subcontext_map = EmptyMap,
                                     ![c].subcontext_map = kept]]

finalize_subcontexts(w, c) ==
    IF ~OrderPreserved(w.cx, c)
    THEN Raise(w, "AssertionError")
    ELSE LET removed == Unclaimed(w.cx, c)
             cx1 == [i \in DOMAIN w.cx |->
                        IF i \in removed
                        THEN [w.cx[i] EXCEPT !.parent_context = None]
                        ELSE w.cx[i]]
         IN  [w EXCEPT !.cx = [cx1 EXCEPT ![c].prev_subcontext_map = EmptyMap]]

----------------------------------------------------------------------------
(* The user components: what each class's render returns, as a function of *)
(* its props and of the values its use_state calls returned.               *)

\* how many calls of each hook the class's render makes
HookCalls(type) ==
    [state |-> IF type = "List" THEN 0 ELSE 1,
     effect |-> CASE type \in {"Item", "ItemAlias"} -> 1
                  [] type = "Panel" -> 2
                  [] OTHER -> 0,
     ref |-> IF type = "Bump" THEN 1 ELSE 0]

\* the initial values of the class's use_state calls, in call order
InitialStates(type) == IF type = "List" THEN <<>> ELSE <<0>>

\* what the render of a Faulty does: 0 returns a box of an Item, 1 a box of
\* an ItemAlias in the Item's place, 2 a box of an Item and of something that
\* is no element, 3 raises; a Faulty of prop 1 raises whatever its state
Fault(component, states) == IF component.count = 1 THEN 3 ELSE states[1]

Shape(component, states) ==
    CASE component.type = "Faulty" ->
            CASE Fault(component, states) = 0 -> Box(<<Comp("Item", "a", 0, 0)>>)
              [] Fault(component, states) = 1 -> Box(<<Comp("ItemAlias", "a", 0, 0)>>)
              [] Fault(component, states) = 2 ->
                    Box(<<Comp("Item", "a", 0, 0), Unrenderable>>)
              [] OTHER -> NoTree
      [] component.type = "App" ->
            Box(<<Comp("Item", "a", states[1], 0)>>
                \o (IF states[1] < 2
                    THEN <<Comp("Item", "a", ConstProp, 0)>> ELSE <<>>)
                \o (IF states[1] >= 1
                    THEN <<Comp("List", "", states[1], 0)>> ELSE <<>>))
      [] component.type = "List" ->
            IF component.count >= 2
            THEN Comp("Bump", "", 0, 0)
            ELSE [Box(<<Text(<<component.count>>)>>) EXCEPT !.key = "b"]
      [] component.type \in {"Item", "ItemAlias"} ->
            Text(<<component.count, states[1]>>)
      [] component.type = "Panel" ->
            Box(<<Comp("Item", "a", states[1], 0),
                  Box(<<Comp("Item", "b", 0, 0)>>)>>
                \o (IF states[1] = 0
                    THEN <<Comp("Item", "a", ConstProp, 0)>> ELSE <<>>))
      [] OTHER ->
            Text(<<states[1]>>)

\* Component.render(context): the hooks the class calls, in its order, and
\* the element it returns
render(w, c) ==
    LET component == w.cx[c].component
        \* the rest of each render, s being what its use_state call returned
        App(s) == [w |-> s.w, elem |-> Shape(component, <<s.value>>)]
        Item(s) ==
            [w |-> use_effect(s.w, c, Effect(c, <<component.count, s.value>>),
                              <<component.count>>),
             elem |-> Shape(component, <<s.value>>)]
        Bump(s) ==
            LET held(r) == IF s.value = 0 THEN set_state(r.w, c, s.index, 1) ELSE r.w
            IN  [w |-> held(use_ref(s.w, c, 0)),
                 elem |-> Shape(component, <<s.value>>)]
        \* two effects of its own: one per value of its state, one for good
        Panel(s) ==
            [w |-> use_effect(
                       use_effect(s.w, c, Effect(c, <<s.value>>), <<s.value>>),
                       c, [Effect(c, <<>>) EXCEPT !.index = 1], <<>>),
             elem |-> Shape(component, <<s.value>>)]
        Faulty(s) ==
            IF Fault(component, <<s.value>>) = 3
            THEN [w |-> Raise(s.w, "RuntimeError"), elem |-> NoTree]
            ELSE [w |-> s.w, elem |-> Shape(component, <<s.value>>)]
    IN  CASE component.type = "App" -> App(use_state(w, c, 0))
          [] component.type = "Faulty" -> Faulty(use_state(w, c, 0))
          [] component.type = "Panel" -> Panel(use_state(w, c, 0))
          [] component.type = "List" -> [w |-> w, elem |-> Shape(component, <<>>)]
          [] component.type \in {"Item", "ItemAlias"} -> Item(use_state(w, c, 0))
          [] OTHER -> Bump(use_state(w, c, 0))

----------------------------------------------------------------------------
(* ComponentContext: materialize *)

RECURSIVE materialize_element(_, _, _), materialize_children(_, _, _, _), materialize(_, _)
RECURSIVE materialize_stale(_, _)

\* [self._materialize_element(x) for x in elem.children], left to right
materialize_children(w, c, children, done) ==
    IF children = <<>> \/ w.err # NoErr
    THEN [w |-> w, out |-> done]
    ELSE LET rest(r) ==
                 materialize_children(r.w, c, Tail(children), Append(done, r.out))
         IN  rest(materialize_element(w, c, Head(children)))

\* a _materialize_element that returns a primitive as it is, children included
materialize_element_shallow(w, c, elem) ==
    IF IsPrimitive(elem)
    THEN [w |-> w, out |-> elem]
    ELSE IF IsComponent(elem)
         THEN LET expand(r) ==
                      IF r.w.err # NoErr
                      THEN [w |-> r.w, out |-> NoTree]
                      ELSE materialize(r.w, r.sub)
              IN  expand(init_subcontext(w, c, elem))
         ELSE [w |-> Raise(w, "NotImplementedError"), out |-> NoTree]

materialize_element(w, c, elem) ==
    IF IsPrimitive(elem)
    THEN IF elem.children # <<>>
         THEN LET replaced(r) == [w |-> r.w, out |-> [elem EXCEPT !.children = r.out]]
              IN  replaced(materialize_children(w, c, elem.children, <<>>))
         ELSE [w |-> w, out |-> elem]
    ELSE IF IsComponent(elem)
         THEN LET expand(r) ==
                      IF r.w.err # NoErr
                      THEN [w |-> r.w, out |-> NoTree]
                      ELSE materialize(r.w, r.sub)
              IN  expand(init_subcontext(w, c, elem))
         ELSE [w |-> Raise(w, "NotImplementedError"), out |-> NoTree]

\* the branch of materialize that renders: begin, render, expand, finalize
materialize_stale(w, c) ==
    LET \* return self._materialized
        finalized(w3) ==
            [w |-> [w3 EXCEPT !.depth = @ - 1], out |-> w3.cx[c].materialized]
        \* self._materialized = ...; self._finalize_subcontexts()
        expanded(m) ==
            IF m.w.err # NoErr
            THEN [w |-> m.w, out |-> NoTree]
            ELSE finalized(finalize_subcontexts(
                     [m.w EXCEPT !.cx[c].materialized = m.out,
                                 !.finalized = Append(@,
                                     [ctx |-> c,
                                      cur |-> m.w.cx[c].subcontext_map,
                                      prev |-> m.w.cx[c].prev_subcontext_map])], c))
        \* self._materialize_element(shallow_subtree)
        rendered(r) ==
            IF r.w.err # NoErr
            THEN [w |-> r.w, out |-> NoTree]
            ELSE expanded(materialize_element(r.w, c, r.elem))
        \* self.component.render(self), logged with the context as
        \* _begin_materialization left it
        begun(w1) ==
            rendered(render([w1 EXCEPT !.rendered = Append(@, c),
                                       !.depth = @ + 1,
                                       !.begun = Append(@, w1.cx[c])], c))
    IN  begun(begin_materialization(w, c))

\* a materialize that never serves the cache
materialize_uncached(w, c) == materialize_stale(w, c)

materialize(w, c) ==
    IF w.cx[c].invalidated \/ w.cx[c].materialized = NoTree
    THEN materialize_stale(w, c)
    ELSE [w |-> w, out |-> w.cx[c].materialized]

----------------------------------------------------------------------------
(* The root driver *)

\* a driver that materializes only a root that has no cache yet
do_render_first_only(w, root) ==
    LET component == Comp("App", "", 0, 0)
        printed(r, root1) == [w |-> r.w, root |-> root1, out |-> r.out]
        \* if _root_context.invalidated: elem = _root_context.materialize()
        driven(w1, root1) ==
            IF w1.err = NoErr /\ w1.cx[root1].materialized = NoTree
            THEN printed(materialize(w1, root1), root1)
            ELSE [w |-> w1, root |-> root1, out |-> NoTree]
    IN  IF root = None
        THEN driven([w EXCEPT !.cx = Append(@, NewContext(component, None))],
                    Len(w.cx) + 1)
        ELSE driven(set_props(w, root, component), root)

\* _do_render: the world after it, the context it left in _root_context and
\* the tree it printed (NoTree when it rendered nothing)
do_render(w, root) ==
    LET component == Comp("App", "", 0, 0)
        printed(r, root1) == [w |-> r.w, root |-> root1, out |-> r.out]
        \* if _root_context.invalidated: elem = _root_context.materialize()
        driven(w1, root1) ==
            IF w1.err = NoErr /\ w1.cx[root1].invalidated
            THEN printed(materialize(w1, root1), root1)
            ELSE [w |-> w1, root |-> root1, out |-> NoTree]
    IN  IF root = None
        THEN driven([w EXCEPT !.cx = Append(@, NewContext(component, None))],
                    Len(w.cx) + 1)
        ELSE driven(set_props(w, root, component), root)

----------------------------------------------------------------------------
(* The operations, as a caller of the engine sees them *)

\* the hook cursors of a context: how many calls of each hook its render
\* has made so far
Cursors(ctx) ==
    [state |-> ctx.state_index, effect |-> ctx.effect_index, ref |-> ctx.ref_index]

\* what the last operation was, what it returned and what it logged; passes
\* is the parity of the number of passes the run loop's driver has made; owed
\* is how many of the callbacks that were queued at the latest stop() the
\* loop has not called yet; calls is how many calls of each hook the render
\* made that the latest directly called _begin_materialization ended
LastOf(op, c, index, value, comp, w, ret, passes, owed) ==
    [op |-> op, ctx |-> c, index |-> index, value |-> value, comp |-> comp,
     err |-> w.err, ret |-> ret,
     wakes |-> w.wakes, sets |-> w.sets, rendered |-> w.rendered, ran |-> w.ran,
     finalized |-> w.finalized, begun |-> w.begun,
     passes |-> passes, owed |-> owed,
     calls |-> [state |-> 0, effect |-> 0, ref |-> 0]]

Last(op, c, index, value, comp, w, ret) ==
    [LastOf(op, c, index, value, comp, w, ret,
            IF op = "pre_sleep" /\ w.rendered # <<>>
            THEN 1 - last.passes ELSE last.passes,
            IF w.stops # <<>>
            THEN w.stops[Len(w.stops)]
            ELSE IF op = "work" /\ last.owed > 0
                 THEN last.owed - 1 ELSE last.owed)
        EXCEPT !.calls = IF op = "begin_materialization"
                         THEN Cursors(contexts[c]) ELSE last.calls]

\* the program's state after a call that ended in world w
Commit(w) ==
    /\ contexts' = w.cx
    /\ queue' = w.queue
    /\ event' = w.event
    /\ running' = w.running

\* the calls that fit the model's bound on allocation
Fits(w) == w.err # "Overflow"

RECURSIVE Ancestors(_, _)
\* the contexts reachable from c through parent_context links
Ancestors(cxs, c) ==
    LET p == cxs[c].parent_context
    IN  IF p = None THEN {} ELSE {p} \cup Ancestors(cxs, p)

\* c is the root or attached under it
Attached(c) == root_context \in Ancestors(contexts, c) \cup {c}

\* the components a caller may hand to _set_props
Components ==
    {Comp("Item", "a", 0, 1), Comp("Item", "", 0, 1),
     Comp("List", "", 1, 1), Comp("Bump", "", 1, 1), Comp("ItemAlias", "a", 0, 1)}

\* the components the driver may hand to the root's _set_props
RootComponents == {Comp("App", "", 1, 1)}

\* the values a caller may hand to the setter of a context's state slot
SetterValues(c) ==
    IF contexts[c].component.type = "App" THEN CountValues ELSE StateValues

Init ==
    /\ contexts = <<>>
    /\ root_context = None
    /\ queue = <<>>
    /\ event = FALSE
    /\ running = TRUE
    /\ pc = "idle"
    /\ last = LastOf("init", None, 0, 0, NoTree,
                     [err |-> NoErr, wakes |-> 0, sets |-> <<>>, rendered |-> <<>>,
                      ran |-> <<>>, finalized |-> <<>>, begun |-> <<>>],
                     NoTree, 0, 0)

\* _do_render()
DoRender ==
    LET returns(r) ==
            /\ Fits(r.w)
            /\ Commit(r.w)
            /\ root_context' = r.root
            /\ last' = Last("do_render", r.root, 0, 0, NoTree, r.w, r.out)
    IN  /\ queue = <<>>
        /\ returns(do_render(World, root_context))
        /\ UNCHANGED pc

\* _root_context.materialize()
Materialize ==
    /\ root_context # None
    /\ queue = <<>>
    /\ LET returns(r) ==
               /\ Fits(r.w)
               /\ Commit(r.w)
               /\ last' = Last("materialize", root_context, 0, 0, NoTree, r.w, r.out)
       IN  returns(materialize(World, root_context))
    /\ UNCHANGED <<root_context, pc>>

\* a setter that some use_state call returned is called
SetState(c, index, value) ==
    /\ index < Len(contexts[c].state_list)
    /\ LET w == set_state(World, c, index, value)
       IN  /\ Commit(w)
           /\ last' = Last("set_state", c, index, value, NoTree, w, NoTree)
    /\ UNCHANGED <<root_context, pc>>

\* context._set_props(new_component)
SetProps(c, new_component) ==
    /\ LET w == set_props(World, c, new_component)
       IN  /\ Commit(w)
           /\ last' = Last("set_props", c, 0, 0, new_component, w, NoTree)
    /\ UNCHANGED <<root_context, pc>>

\* context._invalidate(propagate)
Invalidate(c, propagate) ==
    /\ LET w == invalidate(World, c, propagate)
       IN  /\ Commit(w)
           /\ last' = Last("invalidate", c, 0, IF propagate THEN 1 ELSE 0,
                           NoTree, w, NoTree)
    /\ UNCHANGED <<root_context, pc>>

RECURSIVE drain_lifo(_)
\* a drain that takes the callback queued last
drain_lifo(w) ==
    IF w.queue = <<>> \/ w.err # NoErr
    THEN w
    ELSE drain_lifo(run_work([w EXCEPT !.queue = SubSeq(@, 1, Len(@) - 1)],
                             w.queue[Len(w.queue)]))

RECURSIVE drain(_)
\* while self._queue: work = self._queue.popleft(); work()
drain(w) ==
    IF w.queue = <<>> \/ w.err # NoErr
    THEN w
    ELSE drain(run_work([w EXCEPT !.queue = Tail(@)], Head(w.queue)))

\* the queued callbacks are taken and called, first in first out
RunWork ==
    /\ queue # <<>>
    /\ LET w == drain(World)
       IN  /\ Commit(w)
           /\ last' = Last("run_work", None, 0, 0, NoTree, w, NoTree)
    /\ UNCHANGED <<root_context, pc>>

Next ==
    \/ DoRender
    \/ Materialize
    \/ \E c \in DOMAIN contexts, index \in {0}, value \in StateValues \cup CountValues :
          value \in SetterValues(c) /\ SetState(c, index, value)
    \/ \E new_component \in RootComponents :
          root_context # None /\ SetProps(root_context, new_component)
    \/ RunWork

Spec == Init /\ [][Next]_vars

\* The engine driven through its props: the driver's passes, the root's
\* setter, and _set_props called on any context with any component.
NextProps ==
    \/ DoRender
    \/ \E value \in CountValues :
          root_context # None /\ SetState(root_context, 0, value)
    \/ \E c \in DOMAIN contexts, new_component \in Components :
          SetProps(c, new_component)
    \/ RunWork

SpecProps == Init /\ [][NextProps]_vars

\* The engine with _invalidate called on any context: the driver's passes
\* and the root's setter build the trees.
NextInvalidate ==
    \/ DoRender
    \/ \E value \in CountValues :
          root_context # None /\ SetState(root_context, 0, value)
    \/ \E c \in DOMAIN contexts, propagate \in BOOLEAN :
          Invalidate(c, propagate)
    \/ RunWork

SpecInvalidate == Init /\ [][NextInvalidate]_vars

----------------------------------------------------------------------------
(* A root with effects of its own, materialized directly as the tests do:  *)
(* passes may follow one another before the queued effects are called      *)

\* root = Panel(); context = ComponentContext(root)
InitEffects ==
    /\ contexts = <<NewContext(Comp("Panel", "", 0, 1), None)>>
    /\ root_context = 1
    /\ queue = <<>>
    /\ event = FALSE
    /\ running = TRUE
    /\ pc = "idle"
    /\ last = LastOf("init", None, 0, 0, NoTree,
                     [err |-> NoErr, wakes |-> 0, sets |-> <<>>, rendered |-> <<>>,
                      ran |-> <<>>, finalized |-> <<>>, begun |-> <<>>],
                     NoTree, 0, 0)

\* context.materialize(), whatever is queued
MaterializeQueued ==
    /\ Len(queue) <= MaxPending
    /\ LET returns(r) ==
               /\ Fits(r.w)
               /\ Commit(r.w)
               /\ last' = Last("materialize", root_context, 0, 0, NoTree, r.w, r.out)
       IN  returns(materialize(World, root_context))
    /\ UNCHANGED <<root_context, pc>>

NextEffects ==
    \/ MaterializeQueued
    \/ \E c \in DOMAIN contexts, value \in StateValues : SetState(c, 0, value)
    \/ RunWork

SpecEffects == InitEffects /\ [][NextEffects]_vars

----------------------------------------------------------------------------
(* A root whose renders can fail, materialized directly: a pass that raises *)
(* leaves the program in the state it had reached                           *)

\* root = Faulty(count); context = ComponentContext(root)
InitErrors ==
    /\ \E count \in {0, 1} :
          contexts = <<NewContext(Comp("Faulty", "", count, 1), None)>>
    /\ root_context = 1
    /\ queue = <<>>
    /\ event = FALSE
    /\ running = TRUE
    /\ pc = "idle"
    /\ last = LastOf("init", None, 0, 0, NoTree,
                     [err |-> NoErr, wakes |-> 0, sets |-> <<>>, rendered |-> <<>>,
                      ran |-> <<>>, finalized |-> <<>>, begun |-> <<>>],
                     NoTree, 0, 0)

NextErrors ==
    \/ MaterializeQueued
    \/ \E value \in FaultValues : SetState(root_context, 0, value)
    \/ \E count \in {0, 1} : SetProps(root_context, Comp("Faulty", "", count, 1))
    \/ RunWork

SpecErrors == InitErrors /\ [][NextErrors]_vars

----------------------------------------------------------------------------
(* The hooks called directly on one context, as a render would call them   *)
(* and as the unit tests do                                                *)

\* the context the hooks are called on
HookContext == 1

\* what a hook returned, as the result of the last operation
Returned(v) == [NoTree EXCEPT !.kind = "Value", !.text = <<v>>]

\* context = ComponentContext(component, _invalidated=False)
InitHooks ==
    /\ contexts = <<[NewContext(Comp("Item", "a", 0, 1), None)
                       EXCEPT !.invalidated = FALSE]>>
    /\ root_context = None
    /\ queue = <<>>
    /\ event = FALSE
    /\ running = TRUE
    /\ pc = "idle"
    /\ last = LastOf("init", None, 0, 0, NoTree,
                     [err |-> NoErr, wakes |-> 0, sets |-> <<>>, rendered |-> <<>>,
                      ran |-> <<>>, finalized |-> <<>>, begun |-> <<>>],
                     NoTree, 0, 0)

\* context._begin_materialization(): a render starts over
BeginMaterialization(c) ==
    /\ LET w == begin_materialization(World, c)
       IN  /\ Commit(w)
           /\ last' = Last("begin_materialization", c, 0, 0, NoTree, w, NoTree)
    /\ UNCHANGED <<root_context, pc>>

\* context.use_state(initial_value)
UseState(c, initial_value) ==
    /\ contexts[c].state_index < MaxHooks
    /\ LET returns(r) ==
               /\ Commit(r.w)
               /\ last' = Last("use_state", c, r.index, initial_value, NoTree,
                               r.w, Returned(r.value))
       IN  returns(use_state(World, c, initial_value))
    /\ UNCHANGED <<root_context, pc>>

\* context.use_ref(initial_value)
UseRef(c, initial_value) ==
    /\ contexts[c].ref_index < MaxHooks
    /\ LET returns(r) ==
               /\ Commit(r.w)
               /\ last' = Last("use_ref", c, 0, initial_value, NoTree,
                               r.w, Returned(r.ref))
       IN  returns(use_ref(World, c, initial_value))
    /\ UNCHANGED <<root_context, pc>>

\* context.use_effect(effect, [dep]), the closure capturing dep
UseEffect(c, dep) ==
    /\ contexts[c].effect_index < MaxHooks
    /\ Len(queue) < MaxQueue
    /\ LET w == use_effect(World, c, Effect(c, <<dep>>), <<dep>>)
       IN  /\ Commit(w)
           /\ last' = Last("use_effect", c, contexts[c].effect_index, dep, NoTree,
                           w, NoTree)
    /\ UNCHANGED <<root_context, pc>>

\* ref.current = value, on the cell at position index of the context's list
WriteRef(c, index, value) ==
    /\ index < Len(contexts[c].ref_list)
    /\ contexts' = [contexts EXCEPT ![c].ref_list[index + 1].current = value]
    /\ last' = Last("write_ref", c, index, value, NoTree, World, NoTree)
    /\ UNCHANGED <<root_context, queue, event, running, pc>>

NextHooks ==
    \/ BeginMaterialization(HookContext)
    \/ \E initial_value \in StateValues : UseState(HookContext, initial_value)
    \/ \E initial_value \in StateValues : UseRef(HookContext, initial_value)
    \/ \E index \in 0..(MaxHooks - 1), value \in StateValues :
          SetState(HookContext, index, value)
    \/ \E index \in 0..(MaxHooks - 1), value \in StateValues :
          WriteRef(HookContext, index, value)

SpecHooks == InitHooks /\ [][NextHooks]_vars

\* the three hooks called in any number and order, render after render, with
\* the setter of the first slot and the work loop in between
NextSlots ==
    \/ BeginMaterialization(HookContext)
    \/ UseState(HookContext, 0)
    \/ UseRef(HookContext, 0)
    \/ \E dep \in StateValues : UseEffect(HookContext, dep)
    \/ SetState(HookContext, 0, 1)
    \/ RunWork

SpecSlots == InitHooks /\ [][NextSlots]_vars

----------------------------------------------------------------------------
(* run_forever, step by step.  The coroutine gives up control only inside  *)
(* _sleep, in event.wait(), and only when the event is not set; the code   *)
(* outside the loop (timers, tasks an effect spawned) runs only then, and  *)
(* until the coroutine is resumed.                                         *)

\* the callbacks the outside pushes
Callbacks ==
    {Noop, CallStop, CallPush} \cup
    (IF root_context = None THEN {}
     ELSE {CallSet(root_context, 0, value) : value \in CountValues})

\* self._running = True
Start ==
    /\ pc = "idle"
    /\ running' = TRUE
    /\ pc' = "test"
    /\ last' = Last("start", None, 0, 0, NoTree, World, NoTree)
    /\ UNCHANGED <<contexts, root_context, queue, event>>

\* while self._running:
Test ==
    /\ pc = "test"
    /\ pc' = IF running THEN "drain" ELSE "done"
    /\ last' = Last("test", None, 0, 0, NoTree, World, NoTree)
    /\ UNCHANGED <<contexts, root_context, queue, event, running>>

\* a drain that ends as soon as a callback has called stop()
WorkUntilStopped ==
    /\ pc = "drain"
    /\ queue # <<>>
    /\ LET w == run_work([World EXCEPT !.queue = Tail(@)], Head(queue))
       IN  /\ Commit(w)
           /\ pc' = IF w.running THEN "drain" ELSE "test"
           /\ last' = Last("work", None, 0, 0, NoTree, w, NoTree)
    /\ UNCHANGED root_context

\* work = self._queue.popleft(); work()
Work ==
    /\ pc = "drain"
    /\ queue # <<>>
    /\ LET w == run_work([World EXCEPT !.queue = Tail(@)], Head(queue))
       IN  /\ Commit(w)
           /\ last' = Last("work", None, 0, 0, NoTree, w, NoTree)
    /\ UNCHANGED <<root_context, pc>>

\* the queue is empty: self.pre_sleep(), which is _do_render; stopping: user
\* code that the hook runs calls _work_loop.stop() before the hook returns
PreSleep(stopping) ==
    /\ pc = "drain"
    /\ queue = <<>>
    /\ LET hook(r) == IF stopping /\ Fits(r.w) THEN [r EXCEPT !.w = stop(r.w)] ELSE r
           returns(r) ==
               IF Fits(r.w)
               THEN /\ Commit(r.w)
                    /\ root_context' = r.root
                    /\ pc' = "sleep"
                    /\ last' = Last("pre_sleep", r.root, 0, 0, NoTree, r.w, r.out)
               ELSE /\ pc' = "halt"
                    /\ last' = Last("halt", None, 0, 0, NoTree, World, NoTree)
                    /\ UNCHANGED <<contexts, root_context, queue, event, running>>
       IN  returns(hook(do_render(World, root_context)))

\* a _sleep that clears the event before it waits on it
SleepClearingFirst ==
    /\ pc = "sleep"
    /\ event' = FALSE
    /\ pc' = "blocked"
    /\ last' = Last("sleep", None, 0, 0, NoTree, World, NoTree)
    /\ UNCHANGED <<contexts, root_context, queue, running>>

\* await self._event.wait(), and self._event.clear() when the event is set
Sleep ==
    /\ pc = "sleep"
    /\ event' = FALSE
    /\ pc' = IF event THEN "test" ELSE "blocked"
    /\ last' = Last("sleep", None, 0, 0, NoTree, World, NoTree)
    /\ UNCHANGED <<contexts, root_context, queue, running>>

\* the event was set while the coroutine waited: it resumes, self._event.clear()
Wakeup ==
    /\ pc = "blocked"
    /\ event
    /\ event' = FALSE
    /\ pc' = "test"
    /\ last' = Last("wakeup", None, 0, 0, NoTree, World, NoTree)
    /\ UNCHANGED <<contexts, root_context, queue, running>>

\* the components whose setters the tasks outside the loop hold
Held == {"App", "Bump"}

\* a task outside the loop calls a setter of a context under the root
EnvSetState(c, index, value) ==
    /\ pc = "blocked"
    /\ Attached(c)
    /\ contexts[c].component.type \in Held
    /\ index < Len(contexts[c].state_list)
    /\ LET w == set_state(World, c, index, value)
       IN  /\ Commit(w)
           /\ last' = Last("set_state", c, index, value, NoTree, w, NoTree)
    /\ UNCHANGED <<root_context, pc>>

\* a task outside the loop calls push_work
EnvPushWork(work) ==
    /\ pc = "blocked"
    /\ Len(queue) < MaxQueue
    /\ LET w == push_work(World, work)
       IN  /\ Commit(w)
           /\ last' = Last("push_work", None, 0, 0, NoTree, w, NoTree)
    /\ UNCHANGED <<root_context, pc>>

\* a task outside the loop calls stop()
EnvStop ==
    /\ pc = "blocked"
    /\ LET w == stop(World)
       IN  /\ Commit(w)
           /\ last' = Last("stop", None, 0, 0, NoTree, w, NoTree)
    /\ UNCHANGED <<root_context, pc>>

\* a task outside the loop calls wake()
EnvWake ==
    /\ pc = "blocked"
    /\ LET w == wake(World)
       IN  /\ Commit(w)
           /\ last' = Last("wake", None, 0, 0, NoTree, w, NoTree)
    /\ UNCHANGED <<root_context, pc>>

NextLoop ==
    \/ Start
    \/ Test
    \/ Work
    \/ \E stopping \in BOOLEAN : PreSleep(stopping)
    \/ Sleep
    \/ Wakeup
    \/ \E c \in DOMAIN contexts, value \in StateValues \cup CountValues :
          value \in SetterValues(c) /\ EnvSetState(c, 0, value)
    \/ \E work \in Callbacks : EnvPushWork(work)
    \/ EnvStop
    \/ EnvWake

SpecLoop == Init /\ [][NextLoop]_vars

\* the call of pre_sleep returns: the coroutine's position moves past it
PreSleepReturns ==
    /\ pc = "drain"
    /\ queue = <<>>
    /\ pc' \in {"sleep", "halt"}

\* run_forever's coroutine runs whenever it can: each of its steps is taken
\* once it can be, and a call of pre_sleep returns
SpecLoopFair ==
    /\ SpecLoop
    /\ WF_vars(Start \/ Test \/ Work \/ Sleep \/ Wakeup)
    /\ WF_pc(PreSleepReturns)

----------------------------------------------------------------------------
(* What a full expansion from scratch yields: a component is rendered with *)
(* the state slots of the context that holds its place in the child map    *)
(* (a place no context holds has the initial values), and so are the       *)
(* components its render returns.                                          *)

RECURSIVE FreshElement(_, _, _, _), FreshChildren(_, _, _, _, _), FreshComponent(_, _, _)

\* the expansion of elem under context parent, claimed counting the places
\* already taken in each bucket
FreshElement(cxs, parent, elem, claimed) ==
    IF IsPrimitive(elem)
    THEN IF elem.children # <<>>
         THEN LET r == FreshChildren(cxs, parent, elem.children, claimed, <<>>)
              IN  [out |-> [elem EXCEPT !.children = r.out], claimed |-> r.claimed]
         ELSE [out |-> elem, claimed |-> claimed]
    ELSE LET typekey == get_subcontext_typekey(elem)
             n == IF typekey \in DOMAIN claimed THEN claimed[typekey] ELSE 0
             bucket == IF parent = None
                       THEN <<>>
                       ELSE MapGet(cxs[parent].subcontext_map, typekey)
             holder == IF n < Len(bucket) THEN bucket[n + 1] ELSE None
         IN  [out |-> FreshComponent(cxs, elem, holder),
              claimed |-> MapPut(claimed, typekey, n + 1)]

FreshChildren(cxs, parent, children, claimed, done) ==
    IF children = <<>>
    THEN [out |-> done, claimed |-> claimed]
    ELSE LET r == FreshElement(cxs, parent, Head(children), claimed)
         IN  FreshChildren(cxs, parent, Tail(children), r.claimed, Append(done, r.out))

FreshComponent(cxs, component, holder) ==
    LET states == IF holder # None /\ cxs[holder].state_list # <<>>
                  THEN cxs[holder].state_list
                  ELSE InitialStates(component.type)
    IN  FreshElement(cxs, holder, Shape(component, states), EmptyMap).out

Fresh(cxs, c) == FreshComponent(cxs, cxs[c].component, c)

Clean(cxs, c) == ~cxs[c].invalidated /\ cxs[c].materialized # NoTree

----------------------------------------------------------------------------
(* Helpers of the claims about one step *)

SeqSet(seq) == {seq[i] : i \in DOMAIN seq}

\* the step is a materialize pass: a direct materialize or the driver's
IsPass(l) == l.op \in {"materialize", "do_render", "pre_sleep"}

\* the contexts in the current child map of c
Children(cxs, c) ==
    UNION {SeqSet(cxs[c].subcontext_map[tk]) : tk \in DOMAIN cxs[c].subcontext_map}

\* c with its parent link set to p
WithParent(ctx, p) == [ctx EXCEPT !.parent_context = p]

\* C2: materialize() on a context that is clean and has a cache returns the
\* cache and changes nothing: no render, no hook cursor or slot, no work
\* pushed, no wake, no child map and no child's parent link.  The first
\* conjunct is the call on the root; the second the calls a pass makes on
\* the clean children it meets (a child whose props the pass did not change).
C2_CacheHitChangesNothing ==
    [][/\ (last'.op = "materialize" /\ Clean(contexts, last'.ctx)) =>
            /\ last'.ret = contexts[last'.ctx].materialized
            /\ last'.err = NoErr
            /\ last'.rendered = <<>>
            /\ last'.wakes = 0
            /\ UNCHANGED <<contexts, queue, event, running, root_context>>
       /\ IsPass(last') =>
            \A d \in DOMAIN contexts :
                (Clean(contexts, d) /\ contexts'[d].component = contexts[d].component) =>
                    /\ d \notin SeqSet(last'.rendered)
                    /\ WithParent(contexts'[d], contexts[d].parent_context) = contexts[d]
                    /\ \A k \in Children(contexts, d) :
                          contexts'[k].parent_context = contexts[k].parent_context
      ]_vars

\* C2 witness: materialize was called on a clean root that has child
\* contexts, and it rendered nothing.
C2_Witness ==
    /\ last.op = "materialize"
    /\ last.rendered = <<>>
    /\ last.ret # NoTree
    /\ Children(contexts, last.ctx) # {}

\* the Bump contexts whose render called their setter in the pass just made
\* (their render saw the slot at 0)
SetInRender ==
    {b \in SeqSet(last'.rendered) :
        /\ contexts'[b].component.type = "Bump"
        /\ (b \in DOMAIN contexts => contexts[b].state_list \in {<<>>, <<0>>})}

\* C3: a setter call overwrites exactly its slot, sets invalidated on the
\* owning context and on every ancestor, posts exactly one wake and pushes no
\* work.  The first conjunct is a call outside a render; the second a call
\* made by a render (every other wake of a pass is a push_work's).
C3_SetterOverwritesInvalidatesWakes ==
    [][/\ last'.op = "set_state" =>
            LET c == last'.ctx
                up == Ancestors(contexts, c)
            IN  /\ contexts' =
                      [d \in DOMAIN contexts |->
                          IF d = c
                          THEN [contexts[d] EXCEPT
                                   !.state_list[last'.index + 1] = last'.value,
                                   !.invalidated = TRUE]
                          ELSE IF d \in up
                               THEN [contexts[d] EXCEPT !.invalidated = TRUE]
                               ELSE contexts[d]]
                /\ last'.wakes = 1
                /\ event'
                /\ UNCHANGED <<queue, running>>
       /\ IsPass(last') =>
            /\ \A b \in SetInRender :
                  /\ contexts'[b].state_list = <<1>>
                  /\ \A d \in {b} \cup Ancestors(contexts', b) : contexts'[d].invalidated
            /\ last'.wakes = (Len(queue') - Len(queue)) + Cardinality(SetInRender)
            /\ (SetInRender # {} => event')
      ]_vars

\* C3 witness: a setter of a context with two ancestors was called outside a
\* render.
C3_Witness ==
    /\ last.op = "set_state"
    /\ Cardinality(Ancestors(contexts, last.ctx)) = 2
    /\ last.wakes = 1

\* C3 witness of the call inside a render: a pass rendered a Bump whose slot
\* its render set, and the root is stale after the pass.
C3_WitnessInRender ==
    /\ last.op = "do_render"
    /\ \E b \in SeqSet(last.rendered) :
          /\ contexts[b].component.type = "Bump"
          /\ contexts[b].invalidated
          /\ contexts[root_context].invalidated

----------------------------------------------------------------------------
(* Claims about what one pass does to the contexts it renders *)

\* the callbacks the step pushed for context d, in push order
PushedFor(d) ==
    SelectSeq(SubSeq(queue', Len(queue) + 1, Len(queue')), LAMBDA work : work.ctx = d)

\* the Item contexts whose render ran in the step
RenderedItems ==
    {d \in SeqSet(last'.rendered) : contexts'[d].component.type \in {"Item", "ItemAlias"}}

\* C5: use_effect at a cursor position: the first call stores (callback, deps)
\* and enqueues the callback once; a later call with equal deps enqueues
\* nothing and leaves the stored pair; a call with different deps replaces
\* the pair and enqueues the new callback once.  It never sets invalidated.
\* (An Item's render calls use_effect once, with deps [count] and a callback
\* that captures count and the state slot.)
C5_UseEffectStoresAndEnqueues ==
    [][IsPass(last') =>
          \A d \in RenderedItems :
              LET component == contexts'[d].component
                  callback == Effect(d, <<component.count, contexts'[d].state_list[1]>>)
                  record == [effect |-> callback, deps |-> <<component.count>>]
                  old == IF d \in DOMAIN contexts THEN contexts[d].effect_list ELSE <<>>
              IN  /\ contexts'[d].effect_index = 1
                  /\ ~contexts'[d].invalidated
                  /\ IF old = <<>>
                     THEN /\ contexts'[d].effect_list = <<record>>
                          /\ PushedFor(d) = <<callback>>
                     ELSE IF old[1].deps = record.deps
                          THEN /\ contexts'[d].effect_list = old
                               /\ PushedFor(d) = <<>>
                          ELSE /\ contexts'[d].effect_list = <<record>>
                               /\ PushedFor(d) = <<callback>>
      ]_vars

\* C5 witness: one pass re-rendered an Item with unchanged deps, whose stored
\* callback is not the one this render made and which enqueued nothing, and
\* an Item with changed deps, whose new callback is in the queue.
C5_Witness ==
    /\ IsPass(last)
    /\ \E d, e \in SeqSet(last.rendered) :
          /\ contexts[d].component.type = "Item"
          /\ contexts[e].component.type = "Item"
          /\ contexts[d].effect_list[1].effect.arg #
                <<contexts[d].component.count, contexts[d].state_list[1]>>
          /\ \A i \in DOMAIN queue : queue[i].ctx # d
          /\ \E i \in DOMAIN queue : queue[i] = contexts[e].effect_list[1].effect
          /\ contexts[e].effect_list[1].effect.arg[2] = 1

\* C7: in a pass, the Nth context of a bucket of a rendered parent is the
\* Nth context of the same bucket of the previous generation where that has
\* N contexts, and else a context created in this pass (stale from birth, so
\* rendered by the pass) whose parent is the rendered parent; every context
\* of a bucket is bound to a component of that (type name, key); the
\* order-preservation assertion does not fail.
C7_PositionalMatching ==
    [][IsPass(last') =>
          /\ last'.err # "AssertionError"
          /\ \A p \in SeqSet(last'.rendered) :
                LET cur == contexts'[p].subcontext_map
                    prev == IF p \in DOMAIN contexts
                            THEN contexts[p].subcontext_map ELSE EmptyMap
                IN  \A tk \in DOMAIN cur :
                        \A n \in 1..Len(cur[tk]) :
                            LET x == cur[tk][n]
                            IN  /\ get_subcontext_typekey(contexts'[x].component) = tk
                                /\ IF n <= Len(MapGet(prev, tk))
                                   THEN x = prev[tk][n]
                                   ELSE /\ x \notin DOMAIN contexts
                                        /\ x \in SeqSet(last'.rendered)
                                        /\ contexts'[x].parent_context = p
      ]_vars

\* C7 witness: a pass re-rendered a parent and bound the second request of a
\* bucket to the second context of the previous generation, which it served
\* from its cache.
C7_Witness ==
    /\ IsPass(last)
    /\ \E p \in SeqSet(last.rendered) :
          \E tk \in DOMAIN contexts[p].subcontext_map :
              /\ Len(contexts[p].subcontext_map[tk]) = 2
              /\ contexts[p].subcontext_map[tk][2] \notin SeqSet(last.rendered)
              /\ contexts[p].subcontext_map[tk][1] \in SeqSet(last.rendered)

\* C8: when a stale materialize of a parent completes, every context of the
\* previous generation at or beyond the new length of its bucket (a bucket
\* not requested again has length 0) has parent_context None, every claimed
\* one has the parent; the previous-generation map is empty and the current
\* map is the one finalization found.
C8_FinalizeDetachesUnclaimed ==
    [][IsPass(last') =>
          \A i \in DOMAIN last'.finalized :
              LET f == last'.finalized[i]
                  p == f.ctx
              IN  /\ f.prev = (IF p \in DOMAIN contexts
                               THEN contexts[p].subcontext_map ELSE EmptyMap)
                  /\ contexts'[p].prev_subcontext_map = EmptyMap
                  /\ contexts'[p].subcontext_map = f.cur
                  /\ \A tk \in DOMAIN f.prev :
                        \A n \in 1..Len(f.prev[tk]) :
                            contexts'[f.prev[tk][n]].parent_context =
                                IF n > Len(MapGet(f.cur, tk)) THEN None ELSE p
      ]_vars

\* C8 witness: a pass shrank a bucket of two to one: the first context is
\* still the parent's, the second is detached.
C8_Witness ==
    /\ IsPass(last)
    /\ \E i \in DOMAIN last.finalized :
          \E tk \in DOMAIN last.finalized[i].prev :
              /\ Len(last.finalized[i].prev[tk]) = 2
              /\ Len(MapGet(last.finalized[i].cur, tk)) = 1
              /\ contexts[last.finalized[i].prev[tk][2]].parent_context = None
              /\ contexts[last.finalized[i].prev[tk][1]].parent_context =
                    last.finalized[i].ctx

\* C8 witness of a bucket that is not requested again: its context is
\* detached.
C8_WitnessBucketGone ==
    /\ IsPass(last)
    /\ \E i \in DOMAIN last.finalized :
          \E tk \in DOMAIN last.finalized[i].prev :
              /\ tk \notin DOMAIN last.finalized[i].cur
              /\ last.finalized[i].prev[tk] # <<>>
              /\ contexts[last.finalized[i].prev[tk][1]].parent_context = None

----------------------------------------------------------------------------
(* Claims about _set_props, under SpecProps *)

\* C9: _set_props with a component equal to the bound one changes nothing:
\* the bound object, the context's flag and every other context stay; with a
\* different component of the same type and key it binds the new component
\* and sets invalidated on that context only.
C9_SetPropsLocal ==
    [][last'.op = "set_props" =>
          LET c == last'.ctx
              new == last'.comp
              old == contexts[c].component
          IN  /\ SameValue(new, old) =>
                    /\ last'.err = NoErr
                    /\ UNCHANGED <<contexts, queue, event, running>>
              /\ (~SameValue(new, old) /\ new.type = old.type /\ new.key = old.key) =>
                    /\ last'.err = NoErr
                    /\ contexts' = [contexts EXCEPT ![c].component = new,
                                                    ![c].invalidated = TRUE]
                    /\ UNCHANGED <<queue, event, running>>
      ]_vars

\* C9 witness: a clean context under two clean ancestors was given a
\* different component of its type and key; it is stale, they are clean.
C9_Witness ==
    /\ last.op = "set_props"
    /\ last.err = NoErr
    /\ contexts[last.ctx].component = last.comp
    /\ contexts[last.ctx].invalidated
    /\ Cardinality(Ancestors(contexts, last.ctx)) = 2
    /\ \A a \in Ancestors(contexts, last.ctx) : Clean(contexts, a)

\* C9 witness of the no-op: an equal component, another object, was handed
\* to a clean context; the bound object is the old one and the context clean.
C9_WitnessEqual ==
    /\ last.op = "set_props"
    /\ last.err = NoErr
    /\ SameValue(contexts[last.ctx].component, last.comp)
    /\ contexts[last.ctx].component.oid # last.comp.oid
    /\ Clean(contexts, last.ctx)
    /\ contexts[last.ctx].parent_context # None

\* C10: _set_props with a component of another class raises the type error,
\* with the same class and another key the key error, and in both cases
\* every context (its bound component and its flag) is as before the call.
C10_SetPropsRejects ==
    [][last'.op = "set_props" =>
          LET new == last'.comp
              old == contexts[last'.ctx].component
          IN  /\ new.type # old.type =>
                    last'.err = "TypeError" /\ UNCHANGED <<contexts, queue, event>>
              /\ (new.type = old.type /\ new.key # old.key) =>
                    last'.err = "ValueError" /\ UNCHANGED <<contexts, queue, event>>
              /\ (new.type = old.type /\ new.key = old.key) => last'.err = NoErr
      ]_vars

\* C10 witness: a clean context refused a component of its class with
\* another key, and is still clean and bound to its component.
C10_Witness ==
    /\ last.op = "set_props"
    /\ last.err = "ValueError"
    /\ Clean(contexts, last.ctx)
    /\ contexts[last.ctx].component.type = last.comp.type
    /\ contexts[last.ctx].component.key # last.comp.key

\* C10 witness of the type error on a clean context.
C10_WitnessType ==
    /\ last.op = "set_props"
    /\ last.err = "TypeError"
    /\ Clean(contexts, last.ctx)
    /\ contexts[last.ctx].component.type # last.comp.type

----------------------------------------------------------------------------
(* Claims about the run loop *)

\* the step is a pass of the loop's driver that materialized the root
IsLoopPass(l) == l.op = "pre_sleep" /\ l.rendered # <<>>

\* the last step called a setter of a context under the root while the loop
\* was running with no stop requested
SetterCalled ==
    /\ pc \notin {"idle", "done"}
    /\ running
    /\ \E i \in DOMAIN last.sets : Attached(last.sets[i])

\* C4 as stated: after a setter call the driver materializes the root again,
\* and after every such pass the root is clean and its output is the
\* expansion of the state slots.
C4_PassLeavesRootClean ==
    /\ \A b \in {0, 1} :
          [](SetterCalled /\ last.passes = b
                => <>(last.passes = 1 - b \/ ~running \/ pc = "halt"))
    /\ [][IsLoopPass(last') =>
             /\ Clean(contexts', root_context')
             /\ last'.ret = Fresh(contexts', root_context')]_vars

\* C4, amended: while the loop runs and no stop is requested, a setter call on
\* a context under the root (from a callback, from a render, from outside
\* while the loop is blocked) is followed by a later pass that materializes
\* the root, unless a stop is requested first; a pass in which no render
\* called a setter leaves the root clean with the expansion of the current
\* state slots as its output; a pass in which a render called a setter
\* leaves the root stale and the event set, and so is followed by another.
C4_SetterLeadsToPass ==
    /\ \A b \in {0, 1} :
          [](SetterCalled /\ last.passes = b
                => <>(last.passes = 1 - b \/ ~running \/ pc = "halt"))
    /\ [][IsLoopPass(last') =>
             IF last'.sets = <<>>
             THEN /\ Clean(contexts', root_context')
                  /\ last'.ret = Fresh(contexts', root_context')
             ELSE /\ contexts'[root_context'].invalidated
                  /\ event']_vars

\* C4 witness: the pass that follows a setter call made by a render: the
\* Bump's slot holds what its render set, the pass called no setter, the root
\* is clean and shows the slot.
C4_Witness ==
    /\ IsLoopPass(last)
    /\ last.sets = <<>>
    /\ Clean(contexts, root_context)
    /\ \E b \in SeqSet(last.rendered) :
          /\ contexts[b].component.type = "Bump"
          /\ contexts[b].state_list = <<1>>
          /\ contexts[b].materialized = Text(<<1>>)

\* C4 witness of a setter called by a callback of the queue
C4_WitnessCallback ==
    /\ last.op = "work"
    /\ SetterCalled
    /\ last.ran[1].work.kind = "call_set"

\* C4 counterexample: a pass of the loop's driver whose render called a
\* setter has returned, and the root is stale.
C4_StaleAfterPass ==
    /\ IsLoopPass(last)
    /\ last.sets # <<>>
    /\ contexts[root_context].invalidated

\* C6: no effect callback is called while a materialize is in progress: a
\* pass calls no callback and leaves the effects its use_effect calls pushed
\* in the queue; every callback call is the loop's, of the head of the queue,
\* outside any materialize.
C6_EffectsRunAfterPass ==
    [][/\ \A i \in DOMAIN last'.ran : last'.ran[i].depth = 0
       /\ IsPass(last') =>
             /\ last'.ran = <<>>
             /\ \A d \in RenderedItems :
                   \A i \in DOMAIN PushedFor(d) : PushedFor(d)[i] \in SeqSet(queue')
       /\ last'.ran # <<>> =>
             /\ last'.op = "work"
             /\ pc = "drain"
             /\ last'.ran = <<[work |-> Head(queue), depth |-> 0]>>
      ]_vars

\* C6 witness: the loop called an effect that a pass had pushed.
C6_Witness ==
    /\ last.op = "work"
    /\ last.ran # <<>>
    /\ last.ran[1].work.kind = "effect"
    /\ last.ran[1].depth = 0
    /\ last.ran[1].work.ctx \in DOMAIN contexts
    /\ contexts[last.ran[1].work.ctx].effect_list # <<>>

----------------------------------------------------------------------------
(* Claims about single operations of a context *)

\* the contexts that have c among their ancestors
Descendants(cxs, c) == {d \in DOMAIN cxs : c \in Ancestors(cxs, d)}

\* C11: _invalidate(propagate = true) sets the invalidated flag of the
\* context and of every ancestor; _invalidate(propagate = false) sets only
\* the context's flag; nothing else changes, so no descendant's flag does;
\* the same call made again on the state it left changes nothing.
C11_InvalidateUpOnly ==
    [][last'.op = "invalidate" =>
          LET c == last'.ctx
              marked == IF last'.value = 1
                        THEN {c} \cup Ancestors(contexts, c) ELSE {c}
          IN  /\ contexts' =
                    [d \in DOMAIN contexts |->
                        IF d \in marked
                        THEN [contexts[d] EXCEPT !.invalidated = TRUE]
                        ELSE contexts[d]]
              /\ \A d \in Descendants(contexts, c) :
                    contexts'[d].invalidated = contexts[d].invalidated
              /\ invalidate([World EXCEPT !.cx = contexts'], c, last'.value = 1).cx
                    = contexts'
              /\ <<queue', event', running'>> = <<queue, event, running>>
              /\ last'.wakes = 0
      ]_vars

\* C11 witness: a propagating _invalidate on a clean context that has two
\* clean ancestors and a sibling, all of which a pass had left clean.
C11_Witness ==
    /\ last.op = "invalidate"
    /\ last.value = 1
    /\ Cardinality(Ancestors(contexts, last.ctx)) = 2
    /\ \A d \in {last.ctx} \cup Ancestors(contexts, last.ctx) : contexts[d].invalidated
    /\ \E d \in DOMAIN contexts :
          /\ contexts[d].parent_context = root_context
          /\ Clean(contexts, d)

\* C11 witness of the local call: the context is stale under a clean parent,
\* and has a clean child.
C11_WitnessLocal ==
    /\ last.op = "invalidate"
    /\ last.value = 0
    /\ contexts[last.ctx].parent_context # None
    /\ Clean(contexts, contexts[last.ctx].parent_context)
    /\ \E d \in Descendants(contexts, last.ctx) : Clean(contexts, d)

----------------------------------------------------------------------------
(* The end-to-end scenario: a parent whose state slot is the prop of its   *)
(* first child and whose second child has the constant prop                *)

\* the bucket of the parent's two children
ItemBucket == <<"Item", "a">>

\* the root was materialized with both children, which are clean; its setter
\* was then called with a value that differs from the first child's prop and
\* keeps both children
ParentSetWithCleanChildren ==
    /\ root_context # None
    /\ contexts[root_context].materialized # NoTree
    /\ contexts[root_context].invalidated
    /\ contexts[root_context].state_list[1] < 2
    /\ ItemBucket \in DOMAIN contexts[root_context].subcontext_map
    /\ LET bucket == contexts[root_context].subcontext_map[ItemBucket]
       IN  /\ Len(bucket) = 2
           /\ Clean(contexts, bucket[1])
           /\ Clean(contexts, bucket[2])
           /\ contexts[bucket[1]].component.count # contexts[root_context].state_list[1]

\* C12: the pass after the parent's setter was called reuses both child
\* contexts in the same bucket order, renders the child whose prop changed
\* and not the other one, which keeps every field and whose cache is in the
\* returned tree, and enqueues exactly one effect, the changed child's; the
\* first pass of a parent enqueues exactly one effect per child.
C12_OnlyChangedChildRerendered ==
    [][IsPass(last') =>
          /\ ParentSetWithCleanChildren =>
                LET root == root_context
                    bucket == contexts[root].subcontext_map[ItemBucket]
                    count == contexts[root].state_list[1]
                IN  /\ contexts'[root].subcontext_map[ItemBucket] = bucket
                    /\ bucket[1] \in SeqSet(last'.rendered)
                    /\ bucket[2] \notin SeqSet(last'.rendered)
                    /\ contexts'[bucket[1]].component.count = count
                    /\ contexts'[bucket[2]] = contexts[bucket[2]]
                    /\ last'.ret.children[1] =
                          Text(<<count, contexts[bucket[1]].state_list[1]>>)
                    /\ last'.ret.children[2] = contexts[bucket[2]].materialized
                    /\ queue' = queue \o
                          <<Effect(bucket[1], <<count, contexts[bucket[1]].state_list[1]>>)>>
          /\ (root_context = None \/ contexts[root_context].materialized = NoTree) =>
                LET bucket == contexts'[root_context'].subcontext_map[ItemBucket]
                IN  /\ Len(bucket) = 2
                    /\ \A i \in 1..2 : Len(PushedFor(bucket[i])) = 1
                    /\ Len(queue') = Len(queue) + 2
      ]_vars

\* C12 witness: the parent was re-materialized with its slot at 1: the first
\* child was rendered with the new prop and its effect is the one in the
\* queue; the second child was not rendered and holds the cache of the first
\* pass.
C12_Witness ==
    /\ IsPass(last)
    /\ root_context # None
    /\ contexts[root_context].state_list = <<1>>
    /\ ItemBucket \in DOMAIN contexts[root_context].subcontext_map
    /\ LET bucket == contexts[root_context].subcontext_map[ItemBucket]
       IN  /\ Len(bucket) = 2
           /\ bucket[1] \in SeqSet(last.rendered)
           /\ bucket[2] \notin SeqSet(last.rendered)
           /\ contexts[bucket[2]].materialized = Text(<<ConstProp, 0>>)
           /\ queue = <<Effect(bucket[1], <<1, 0>>)>>
           /\ last.ret.children[1] = Text(<<1, 0>>)
           /\ last.ret.children[2] = Text(<<ConstProp, 0>>)

----------------------------------------------------------------------------
(* Claims about stopping the run loop *)

\* C13: every callback that is in the queue when stop() is called is called
\* before run_forever returns.
C13_QueuedAtStopAreCalled == pc = "done" => last.owed = 0

\* C13 failing state: run_forever has returned, and a callback that was
\* pushed before stop() was called, while the loop was blocked, is still in
\* the queue.
C13_ReturnedWithQueuedWork ==
    /\ pc = "done"
    /\ last.owed > 0
    /\ Len(queue) >= last.owed
    /\ queue[1].kind = "call_set"

\* C14: once stop() was called while run_forever runs (by a callback of a
\* drain, or from outside while the loop is blocked), run_forever returns;
\* after a stop the loop is never blocked with the wake event clear.
C14_StopReturns ==
    /\ [](~running => <>(pc \in {"done", "halt"}))
    /\ [](pc = "blocked" /\ ~running => event)

\* C14 witness: run_forever has returned after a stop, with nothing queued.
C14_Witness ==
    /\ pc = "done"
    /\ ~running
    /\ queue = <<>>
    /\ root_context # None

\* C14 witness of the stop called outside while the loop is blocked
C14_WitnessBlocked ==
    /\ pc = "blocked"
    /\ last.op = "stop"
    /\ ~running
    /\ event

----------------------------------------------------------------------------
(* Claims about the order of the run loop's steps *)

\* s is the beginning of t
IsPrefix(s, t) == Len(s) <= Len(t) /\ SubSeq(t, 1, Len(s)) = s

\* C15: callbacks are called once each, in push order: a step that calls a
\* callback is the loop's drain step, calls exactly the head of the queue and
\* removes it; every other step leaves the queued callbacks where they are;
\* whatever a step pushes goes behind everything queued; and the drain ends
\* only on an empty queue, so a callback pushed during a drain is called in
\* that drain, after those queued before it.
C15_FifoAtMostOnce ==
    [][/\ IF last'.ran # <<>>
          THEN /\ last'.op = "work"
               /\ last'.ran = <<[work |-> Head(queue), depth |-> 0]>>
               /\ IsPrefix(Tail(queue), queue')
          ELSE IsPrefix(queue, queue')
       /\ (pc = "drain" /\ pc' # "drain") => queue = <<>> /\ last'.ran = <<>>
       /\ (pc = "drain" /\ queue # <<>>) => last'.op = "work"
      ]_vars

\* C15 witness: during a drain a callback pushed another one, which went
\* behind the callback that was queued before it: the drain goes on.
C15_Witness ==
    /\ pc = "drain"
    /\ last.op = "work"
    /\ last.ran[1].work.kind = "call_push"
    /\ Len(queue) = 2
    /\ queue[1].kind = "call_set"
    /\ queue[2] = Noop

\* the step calls the pre-sleep hook
IsHook(l) == l.op \in {"pre_sleep", "halt"}

\* C16: in each iteration of the loop the pre-sleep hook is called once,
\* when the queue is empty, after the drain and before _sleep: the hook is
\* called only from an empty drain and only _sleep follows it; _sleep is
\* entered only from the hook; a new drain starts only from the loop test;
\* the loop blocks only in a _sleep that found the event clear; the event is
\* cleared only by _sleep, when its wait has returned, on the way to the loop
\* test.
C16_HookOncePerIteration ==
    [][/\ IsHook(last') =>
             /\ pc = "drain"
             /\ queue = <<>>
             /\ last.op \in {"test", "work"}
             /\ pc' \in {"sleep", "halt"}
       /\ pc = "sleep" =>
             /\ last.op = "pre_sleep"
             /\ last'.op = "sleep"
             /\ pc' = IF event THEN "test" ELSE "blocked"
       /\ (pc' = "drain" /\ pc # "drain") => pc = "test" /\ running
       /\ (pc' = "blocked" /\ pc # "blocked") => pc = "sleep" /\ ~event
       /\ (pc' = "test" /\ pc # "test") =>
             \/ pc = "idle"
             \/ pc \in {"sleep", "blocked"} /\ event /\ ~event'
       /\ (event /\ ~event') =>
             /\ last'.op \in {"sleep", "wakeup"}
             /\ pc \in {"sleep", "blocked"}
             /\ pc' = "test"
      ]_vars

\* C16 witness: the loop is blocked: its hook ran on the empty queue, left
\* the root clean, and _sleep found the event clear.
C16_Witness ==
    /\ pc = "blocked"
    /\ last.op = "sleep"
    /\ ~event
    /\ queue = <<>>
    /\ root_context # None
    /\ Clean(contexts, root_context)

\* C16 witness of the event cleared after the wait returned
C16_WitnessCleared ==
    /\ pc = "test"
    /\ last.op = "wakeup"
    /\ ~event
    /\ queue # <<>>

----------------------------------------------------------------------------
(* Claims about what stays bound to a context *)

\* C17: no step changes the concrete type or the key of the component bound
\* to a context, and every context stored in a bucket (t, k) of a parent is
\* bound to a component whose type name is t and whose key is k.
C17_TypeAndKeyFixed ==
    [][/\ \A c \in DOMAIN contexts :
             /\ contexts'[c].component.type = contexts[c].component.type
             /\ contexts'[c].component.key = contexts[c].component.key
       /\ \A c \in DOMAIN contexts' :
             \A tk \in DOMAIN contexts'[c].subcontext_map :
                \A i \in DOMAIN contexts'[c].subcontext_map[tk] :
                   LET component ==
                           contexts'[contexts'[c].subcontext_map[tk][i]].component
                   IN  tk = <<Qualname(component.type), component.key>>
      ]_vars

\* C17 witness: a props update with another class of the same type name was
\* refused on a context that a pass had rebound and that sits in its
\* parent's bucket.
C17_Witness ==
    /\ last.op = "set_props"
    /\ last.err = "TypeError"
    /\ last.comp.type = "ItemAlias"
    /\ contexts[last.ctx].component.type = "Item"
    /\ contexts[last.ctx].component.count = 1
    /\ contexts[last.ctx].parent_context = root_context
    /\ last.ctx \in SeqSet(contexts[root_context].subcontext_map[ItemBucket])

----------------------------------------------------------------------------
(* Claims about the hooks *)

\* C18: use_state at cursor position i: when the context has no slot i yet,
\* a slot holding the initial value is appended and that value returned;
\* otherwise the slot's current value is returned and the argument ignored;
\* the setter returned is closed over i, the cursor moves to i + 1 (so the
\* calls of one render use slots 0, 1, ... in call order); nothing else of
\* the context changes, the invalidated flag included, and the work loop is
\* not woken.
C18_UseStateSlots ==
    [][last'.op = "use_state" =>
          LET c == last'.ctx
              i == contexts[c].state_index
              list == contexts[c].state_list
          IN  /\ last'.index = i
              /\ IF i >= Len(list)
                 THEN /\ contexts' = [contexts EXCEPT
                                         ![c].state_list = Append(list, last'.value),
                                         ![c].state_index = i + 1]
                      /\ last'.ret = Returned(last'.value)
                 ELSE /\ contexts' = [contexts EXCEPT ![c].state_index = i + 1]
                      /\ last'.ret = Returned(list[i + 1])
              /\ contexts'[c].invalidated = contexts[c].invalidated
              /\ <<queue', event', running'>> = <<queue, event, running>>
              /\ last'.wakes = 0
              /\ last'.err = NoErr
      ]_vars

\* C18 witness: in a later render the second use_state call returned what a
\* setter had stored in the second slot, not its argument, and the context
\* is not stale.
C18_Witness ==
    /\ last.op = "use_state"
    /\ last.index = 1
    /\ last.ret # Returned(last.value)
    /\ Len(contexts[last.ctx].state_list) = 2
    /\ contexts[last.ctx].state_list[1] # contexts[last.ctx].state_list[2]
    /\ contexts[last.ctx].state_index = 2
    /\ ~contexts[last.ctx].invalidated

\* C19: use_ref at cursor position i returns the cell at position i of the
\* context's list, which it makes with the initial value only when the list
\* has no such position; cells stay in the list, so every render gets the
\* same cell at the same position, with whatever was written to it; use_ref
\* and a write to a cell change no invalidated flag, push no work and post
\* no wake; a new render (_begin_materialization) leaves the cells alone.
C19_UseRefSameCell ==
    [][/\ last'.op = "use_ref" =>
             LET c == last'.ctx
                 i == contexts[c].ref_index
                 list == contexts[c].ref_list
             IN  /\ IF i >= Len(list)
                    THEN /\ contexts' = [contexts EXCEPT
                                ![c].ref_list = Append(list, Ref(Len(list) + 1, last'.value)),
                                ![c].ref_index = i + 1]
                         /\ last'.ret = Returned(Len(list) + 1)
                         /\ \A j \in DOMAIN list : list[j].oid # Len(list) + 1
                    ELSE /\ contexts' = [contexts EXCEPT ![c].ref_index = i + 1]
                         /\ last'.ret = Returned(list[i + 1].oid)
       /\ last'.op = "write_ref" =>
             contexts' = [contexts EXCEPT
                             ![last'.ctx].ref_list[last'.index + 1].current = last'.value]
       /\ last'.op \in {"use_ref", "write_ref"} =>
             /\ \A c \in DOMAIN contexts : contexts'[c].invalidated = contexts[c].invalidated
             /\ <<queue', event', running'>> = <<queue, event, running>>
             /\ last'.wakes = 0
       /\ last'.op \in {"begin_materialization", "use_state", "set_state"} =>
             \A c \in DOMAIN contexts : contexts'[c].ref_list = contexts[c].ref_list
      ]_vars

\* C19 witness: in a later render the second use_ref call returned the
\* second cell made, which holds a value written to it and not the argument
\* of the call.
C19_Witness ==
    /\ last.op = "use_ref"
    /\ last.ret = Returned(2)
    /\ Len(contexts[last.ctx].ref_list) = 2
    /\ contexts[last.ctx].ref_list[2] = Ref(2, 1 - last.value)
    /\ contexts[last.ctx].ref_list[1].current = last.value
    /\ contexts[last.ctx].ref_index = 2

----------------------------------------------------------------------------
(* Claims about one materialization *)

\* C20: in a pass, every context that is rendered is rendered over what
\* _begin_materialization made of it: invalidated cleared, the three cursors
\* at 0, the child map it had before the pass as previous generation and an
\* empty current map, its hook storage and cache untouched. When the pass
\* has returned and no setter was called during it, every rendered context
\* has invalidated = FALSE, a cache, an empty previous generation and each
\* cursor at the number of calls of that hook its render makes; the cache of
\* the context materialize was called on is the tree that was returned.
C20_BeginAndEndOfMaterialize ==
    [][IsPass(last') /\ last'.err = NoErr =>
          /\ Len(last'.begun) = Len(last'.rendered)
          /\ \A k \in DOMAIN last'.rendered :
                LET c == last'.rendered[k]
                    b == last'.begun[k]
                    old == IF c <= Len(contexts)
                           THEN contexts[c]
                           ELSE NewContext(b.component, b.parent_context)
                IN  /\ b = [old EXCEPT !.component = b.component,
                                       !.invalidated = FALSE,
                                       !.effect_index = 0,
                                       !.ref_index = 0,
                                       !.state_index = 0,
                                       !.prev_subcontext_map = old.subcontext_map,
                                       !.subcontext_map = EmptyMap]
                    /\ old.prev_subcontext_map = EmptyMap
                    /\ last'.sets = <<>> =>
                          /\ ~contexts'[c].invalidated
                          /\ contexts'[c].materialized # NoTree
                          /\ contexts'[c].prev_subcontext_map = EmptyMap
                          /\ contexts'[c].state_index = HookCalls(b.component.type).state
                          /\ contexts'[c].effect_index = HookCalls(b.component.type).effect
                          /\ contexts'[c].ref_index = HookCalls(b.component.type).ref
          /\ last'.sets = <<>> /\ last'.rendered # <<>> =>
                contexts'[last'.rendered[1]].materialized = last'.ret
      ]_vars

\* C20 witness: a pass without setter calls re-rendered the root, which had
\* children before it, and a Bump, whose cursors were at 1 before it.
C20_Witness ==
    /\ IsPass(last)
    /\ last.err = NoErr
    /\ last.sets = <<>>
    /\ Len(last.rendered) >= 2
    /\ last.rendered[1] = root_context
    /\ last.begun[1].prev_subcontext_map # EmptyMap
    /\ last.begun[1].state_list # <<>>
    /\ \E k \in DOMAIN last.rendered :
          /\ last.begun[k].component.type = "Bump"
          /\ last.begun[k].ref_list # <<>>
          /\ contexts[last.rendered[k]].ref_index = 1

----------------------------------------------------------------------------
(* Claims about the order of effects *)

RECURSIVE DocElement(_, _, _, _), DocChildren(_, _, _, _, _), DocContext(_, _)

\* the contexts under parent that the components of elem are bound to, in
\* the order in which the components appear in elem
DocElement(cxs, parent, elem, claimed) ==
    IF IsPrimitive(elem)
    THEN DocChildren(cxs, parent, elem.children, claimed, <<>>)
    ELSE LET typekey == get_subcontext_typekey(elem)
             n == IF typekey \in DOMAIN claimed THEN claimed[typekey] ELSE 0
             bucket == MapGet(cxs[parent].subcontext_map, typekey)
         IN  [order |-> IF n < Len(bucket) THEN DocContext(cxs, bucket[n + 1]) ELSE <<>>,
              claimed |-> MapPut(claimed, typekey, n + 1)]

DocChildren(cxs, parent, children, claimed, done) ==
    IF children = <<>>
    THEN [order |-> done, claimed |-> claimed]
    ELSE LET d == DocElement(cxs, parent, Head(children), claimed)
         IN  DocChildren(cxs, parent, Tail(children), d.claimed, done \o d.order)

\* context c, then the contexts of its subtree, children in element order
DocContext(cxs, c) ==
    LET states == IF cxs[c].state_list # <<>>
                  THEN cxs[c].state_list
                  ELSE InitialStates(cxs[c].component.type)
    IN  <<c>> \o DocElement(cxs, c, Shape(cxs[c].component, states), EmptyMap).order

\* where context c stands in the sequence order
PositionIn(order, c) == CHOOSE i \in DOMAIN order : order[i] = c

\* C21: a pass appends the effects it enqueues behind what is queued, and in
\* this order: a context's own effects in the order of its use_effect calls,
\* before those of its descendants, and the subtrees of sibling components
\* in the order in which the components appear in the rendered element; the
\* drain calls the queued callbacks in queue order, all of them.  So effects
\* of an earlier pass are called before those of a later one.
C21_EffectsInRenderOrder ==
    [][/\ last'.op = "materialize" /\ last'.err = NoErr =>
             LET pushed == SubSeq(queue', Len(queue) + 1, Len(queue'))
                 order == DocContext(contexts', root_context)
             IN  /\ IsPrefix(queue, queue')
                 /\ \A i \in DOMAIN pushed :
                       pushed[i].ctx \in {order[k] : k \in DOMAIN order}
                 /\ \A i, j \in DOMAIN pushed :
                       i < j =>
                          IF pushed[i].ctx = pushed[j].ctx
                          THEN pushed[i].index < pushed[j].index
                          ELSE PositionIn(order, pushed[i].ctx)
                                  < PositionIn(order, pushed[j].ctx)
       /\ last'.op = "run_work" =>
             /\ [i \in DOMAIN last'.ran |-> last'.ran[i].work] = queue
             /\ queue' = <<>>
       /\ last'.op = "set_state" => queue' = queue
      ]_vars

\* C21 witness: the drain called, in this order, the effects of the first
\* pass (the root's two, then those of its three children in element order,
\* the child of the second bucket between the two of the first) and then
\* the effects of a second pass (the root's first, then its first child's).
C21_Witness ==
    /\ last.op = "run_work"
    /\ Len(last.ran) = 7
    /\ [i \in 1..7 |-> last.ran[i].work.ctx] = <<1, 1, 2, 3, 4, 1, 2>>
    /\ [i \in 1..7 |-> last.ran[i].work.index] = <<0, 1, 0, 0, 0, 0, 0>>
    /\ contexts[3].component.key = "b"
    /\ contexts[4].component.key = "a"
    /\ contexts[4].effect_list # <<>>
    /\ last.ran[6].work.arg # last.ran[1].work.arg

----------------------------------------------------------------------------
(* Claims about the hook slot lists *)

\* the lengths of the three slot lists of a context
Lengths(ctx) ==
    [state |-> Len(ctx.state_list), effect |-> Len(ctx.effect_list),
     ref |-> Len(ctx.ref_list)]

\* the hook that an operation is a call of, if any
HookKind(op) ==
    CASE op = "use_state" -> "state"
      [] op = "use_effect" -> "effect"
      [] op = "use_ref" -> "ref"
      [] OTHER -> "none"

\* C22: over every step (a new render, a hook call, a setter call, a drain),
\* for each of the three slot lists of the context: the list does not get
\* shorter; it gets longer only by one slot at its end, and only by a hook
\* call whose cursor stood at the end of the list; after the step the cursor
\* is at most the length of the list; the slots that were there stay at
\* their positions (a cell stays the same cell, a state slot changes only by
\* its setter, an effect slot only by a use_effect call at its position); and
\* a hook call at a position at which the previous render made a call too
\* leaves the length of every list as it was.
C22_SlotListsOnlyGrow ==
    [][\A c \in DOMAIN contexts :
          LET old == contexts[c]
              new == contexts'[c]
              kind == IF last'.ctx = c THEN HookKind(last'.op) ELSE "none"
          IN  /\ \A k \in {"state", "effect", "ref"} :
                    /\ Lengths(new)[k] >= Lengths(old)[k]
                    /\ Lengths(new)[k] =
                          Lengths(old)[k] +
                             (IF kind = k /\ Cursors(old)[k] = Lengths(old)[k]
                              THEN 1 ELSE 0)
                    /\ Cursors(new)[k] <= Lengths(new)[k]
                    /\ kind = k => Cursors(new)[k] = Cursors(old)[k] + 1
                    /\ kind = k /\ Cursors(old)[k] < last.calls[k] =>
                          Lengths(new) = Lengths(old)
              /\ \A j \in DOMAIN old.ref_list : new.ref_list[j] = old.ref_list[j]
              /\ \A j \in DOMAIN old.state_list :
                    \/ new.state_list[j] = old.state_list[j]
                    \/ last'.op = "set_state" /\ last'.ctx = c /\ last'.index = j - 1
              /\ \A j \in DOMAIN old.effect_list :
                    \/ new.effect_list[j] = old.effect_list[j]
                    \/ /\ kind = "effect" /\ old.effect_index = j - 1
                       /\ old.effect_list[j].deps # new.effect_list[j].deps
      ]_vars

\* C22 witness: the render under way has made the calls that the previous
\* render made, two of each hook, and each list has the two slots it had.
C22_Witness ==
    /\ HookKind(last.op) # "none"
    /\ last.calls = [state |-> 2, effect |-> 2, ref |-> 2]
    /\ Cursors(contexts[last.ctx]) = last.calls
    /\ Lengths(contexts[last.ctx]) = last.calls

\* C22 witness: a render that made fewer calls than an earlier one has ended,
\* and the slots of the calls it did not make are still there.
C22_WitnessFewer ==
    /\ last.op = "begin_materialization"
    /\ last.calls = [state |-> 1, effect |-> 0, ref |-> 1]
    /\ Lengths(contexts[last.ctx]) = [state |-> 2, effect |-> 2, ref |-> 2]
    /\ contexts[last.ctx].state_list = <<1, 0>>

----------------------------------------------------------------------------
(* Claims about the materialized tree *)

RECURSIVE AllPrimitive(_)
\* the tree has primitives only, at every depth
AllPrimitive(tree) ==
    /\ IsPrimitive(tree)
    /\ \A i \in DOMAIN tree.children : AllPrimitive(tree.children[i])

RECURSIVE Substituted(_, _, _, _)
\* out is elem with every component replaced, where it stands, by the cache
\* of a child context of c that is bound to it, and nothing else changed
Substituted(cxs, c, elem, out) ==
    IF IsPrimitive(elem)
    THEN /\ IsPrimitive(out)
         /\ out.type = elem.type
         /\ out.key = elem.key
         /\ out.text = elem.text
         /\ Len(out.children) = Len(elem.children)
         /\ \A i \in DOMAIN elem.children :
               Substituted(cxs, c, elem.children[i], out.children[i])
    ELSE \E d \in SeqSet(MapGet(cxs[c].subcontext_map, get_subcontext_typekey(elem))) :
            /\ SameValue(cxs[d].component, elem)
            /\ cxs[d].parent_context = c
            /\ cxs[d].materialized = out

\* C23: the tree a pass returns, and the cache of every context the pass
\* rendered, has no component at any depth; the cache of a rendered context
\* (whose setter the render did not call) is the element its render returned
\* with each component, directly returned or nested under primitives,
\* replaced where it stands by the cache of a child context bound to that
\* component, and with the type, text, key and number and order of children
\* of every primitive as in the element.
C23_TreeIsAllPrimitive ==
    [][IsPass(last') /\ last'.err = NoErr =>
          /\ last'.ret # NoTree => AllPrimitive(last'.ret)
          /\ \A c \in SeqSet(last'.rendered) :
                /\ AllPrimitive(contexts'[c].materialized)
                /\ c \notin SeqSet(last'.sets) =>
                      Substituted(contexts', c,
                                  Shape(contexts'[c].component, contexts'[c].state_list),
                                  contexts'[c].materialized)
      ]_vars

\* C23 witness: the returned tree is a box whose last child is the text that
\* a Bump rendered, two components deep (App returned a box with a List,
\* List returned a Bump), next to the expansion of an Item.
C23_Witness ==
    /\ IsPass(last)
    /\ last.err = NoErr
    /\ last.sets = <<>>
    /\ last.ret.type = "Box"
    /\ Len(last.ret.children) = 2
    /\ last.ret.children[1].type = "Text"
    /\ last.ret.children[2] = Text(<<1>>)
    /\ \E c, d \in SeqSet(last.rendered) :
          /\ contexts[c].component.type = "List"
          /\ contexts[d].component.type = "Bump"
          /\ contexts[d].parent_context = c
          /\ contexts[c].parent_context = root_context

\* C23 witness: the returned tree holds the keyed box that a List rendered
\* in this pass, key and child kept.
C23_WitnessKeyed ==
    /\ IsPass(last)
    /\ last.err = NoErr
    /\ Len(last.ret.children) = 3
    /\ last.ret.children[3] = [Box(<<Text(<<1>>)>>) EXCEPT !.key = "b"]
    /\ \E c \in SeqSet(last.rendered) : contexts[c].component.type = "List"

----------------------------------------------------------------------------
(* Claims about the invalidated flags of the tree *)

RECURSIVE Reachable(_, _, _)
\* the contexts reached from the contexts of todo through current child maps
Reachable(cxs, todo, seen) ==
    IF todo \subseteq seen
    THEN seen
    ELSE Reachable(cxs, UNION {Children(cxs, c) : c \in todo}, seen \cup todo)

\* the root and the contexts under it
Tree == IF root_context = None THEN {} ELSE Reachable(contexts, {root_context}, {})

\* C24: between operations, every invalidated context of the tree under the
\* root (reached through current child maps) has invalidated ancestors only,
\* up to the root: with a clean root, no context of the tree is invalidated.
C24_StaleImpliesStaleAncestors ==
    /\ \A c \in Tree :
          contexts[c].invalidated =>
             /\ \A a \in Ancestors(contexts, c) : contexts[a].invalidated
             /\ c = root_context \/ root_context \in Ancestors(contexts, c)
    /\ root_context # None /\ ~contexts[root_context].invalidated =>
          \A c \in Tree : ~contexts[c].invalidated

\* C24 witness: a setter of a context two levels under the root was called,
\* and the context, its parent and the root are invalidated, while another
\* child of the root is not.
C24_Witness ==
    /\ last.op = "set_state"
    /\ last.ctx \in Tree
    /\ contexts[last.ctx].parent_context # None
    /\ contexts[contexts[last.ctx].parent_context].parent_context = root_context
    /\ contexts[last.ctx].invalidated
    /\ contexts[contexts[last.ctx].parent_context].invalidated
    /\ contexts[root_context].invalidated
    /\ \E d \in Children(contexts, root_context) : ~contexts[d].invalidated

\* C24 witness: after a pass the root is clean, over a tree of four contexts
\* three levels deep of which none is invalidated.
C24_WitnessClean ==
    /\ IsPass(last)
    /\ root_context # None
    /\ ~contexts[root_context].invalidated
    /\ Cardinality(Tree) = 4
    /\ \E c \in Tree : contexts[c].component.type = "Bump"

----------------------------------------------------------------------------
(* Claims about the work loop's progress *)

\* C25: a wake is not lost: every push (during a drain, during the pre-sleep
\* hook, while the loop is blocked) leaves the event set; the event is
\* cleared only by _sleep, after its wait; a wait that finds the event set
\* returns at once, to the loop test; so the loop is never blocked with a
\* callback queued and the event clear.  And under fairness of the
\* coroutine's steps, whenever callbacks are queued the queue is eventually
\* empty, every callback called (only the drain takes callbacks off the
\* queue, by calling them), unless run_forever has returned because stop()
\* was requested meanwhile.
C25_PushedWorkIsCalled ==
    /\ [](pc = "blocked" /\ queue # <<>> => event)
    /\ [][/\ Len(queue') > Len(queue) => event'
          /\ event /\ ~event' => pc \in {"sleep", "blocked"} /\ pc' = "test"
          /\ pc = "sleep" /\ event => pc' = "test"
          /\ Len(queue') < Len(queue) =>
                /\ last'.op = "work"
                /\ IsPrefix(Tail(queue), queue')
                /\ last'.ran[1].work = Head(queue)
         ]_vars
    /\ (queue # <<>>) ~> (queue = <<>> \/ pc \in {"done", "halt"})

\* C25 witness: the loop, not stopped, has just called a callback that was
\* pushed from outside while it was blocked, and the queue is empty.
C25_Witness ==
    /\ last.op = "work"
    /\ last.ran[1].work.kind = "call_set"
    /\ running
    /\ queue = <<>>

\* C25 witness: a pass in the pre-sleep hook has pushed effects while the
\* loop was not blocked, and the wait that follows will return at once.
C25_WitnessHook ==
    /\ last.op = "pre_sleep"
    /\ pc = "sleep"
    /\ running
    /\ queue # <<>>
    /\ event

\* C25 witness: the callback just called in the drain has pushed a callback,
\* which is queued with the event set while the loop is not blocked.
C25_WitnessDrain ==
    /\ last.op = "work"
    /\ last.ran[1].work = CallPush
    /\ running
    /\ queue = <<Noop>>
    /\ last.wakes = 1
    /\ event
    /\ pc = "drain"

\* C26: the drain step in which a callback calls stop() takes that callback
\* off the queue and stays in the drain; from then on the coroutine's steps
\* are: it calls the queued callbacks, head first, those pushed during
\* the drain included, and leaves the drain only with the queue empty; it
\* calls the pre-sleep hook; its wait returns at once, the event being set;
\* the loop test fails and run_forever returns.  It does not block, it does
\* not drain again, _running stays false, and under fairness of the
\* coroutine's steps it does return.
C26_StopInDrainFinishesDrain ==
    /\ [](~running /\ pc \in {"drain", "sleep"} => event)
    /\ [][running /\ ~running' /\ pc = "drain" /\ last'.op = "work" =>
             /\ last'.ran[1].work = CallStop
             /\ queue' = Tail(queue)
             /\ pc' = "drain"
         ]_vars
    /\ [][~running /\ pc # "idle" =>
             /\ ~running'
             /\ pc = "drain" /\ queue # <<>> =>
                   /\ last'.op = "work"
                   /\ last'.ran[1].work = Head(queue)
                   /\ IsPrefix(Tail(queue), queue')
                   /\ pc' = "drain"
             /\ pc = "drain" /\ queue = <<>> =>
                   /\ last'.op \in {"pre_sleep", "halt"}
                   /\ pc' \in {"sleep", "halt"}
             /\ pc = "sleep" => last'.op = "sleep" /\ pc' = "test"
             /\ pc = "test" => pc' = "done"
             /\ pc \notin {"done", "halt"}
         ]_vars
    /\ (~running /\ pc = "drain") ~> (pc \in {"done", "halt"})

\* C26 witness: after a callback called stop() in the drain, the next
\* callback was called and pushed one more, which is queued to be called in
\* the same drain.
C26_Witness ==
    /\ ~running
    /\ pc = "drain"
    /\ last.op = "work"
    /\ last.ran[1].work = CallPush
    /\ queue = <<Noop>>

\* C26 witness: the hook has been called after a drain in which stop() was
\* called, and the event is set for the wait that follows.
C26_WitnessHook ==
    /\ ~running
    /\ pc = "sleep"
    /\ last.op = "pre_sleep"
    /\ last.wakes = 0
    /\ event

----------------------------------------------------------------------------
(* Claims about detached contexts *)

\* a context that had a parent and lost it
Detached(cxs, c) == c # root_context /\ cxs[c].parent_context = None

\* the contexts in the current or previous child map of some context
InSomeMap(cxs) ==
    UNION {Children(cxs, p) \cup
           UNION {SeqSet(cxs[p].prev_subcontext_map[tk]) :
                     tk \in DOMAIN cxs[p].prev_subcontext_map} :
           p \in DOMAIN cxs}

\* C27: a detached context is in no child map, current or previous, of any
\* context, and stays detached over every step; and when a pass gives a
\* bucket of a rendered context more positions than it had, each added
\* position holds a context made in this pass, with that parent, whose hook
\* slots are those its first render allocated, with their initial values
\* (unless that render called its own setter), whatever a detached context
\* that once held the position has in its slots.
C27_DetachedNeverReturns ==
    /\ [](\A c \in DOMAIN contexts : Detached(contexts, c) => c \notin InSomeMap(contexts))
    /\ [][/\ \A c \in DOMAIN contexts :
                Detached(contexts, c) =>
                   /\ Detached(contexts', c)
                   /\ c \notin InSomeMap(contexts')
          /\ IsPass(last') /\ last'.err = NoErr =>
                \A p \in SeqSet(last'.rendered) :
                   \A tk \in DOMAIN contexts'[p].subcontext_map :
                      LET old == IF p \in DOMAIN contexts
                                 THEN MapGet(contexts[p].subcontext_map, tk) ELSE <<>>
                          new == contexts'[p].subcontext_map[tk]
                      IN  \A i \in DOMAIN new :
                             i > Len(old) =>
                                /\ new[i] \notin DOMAIN contexts
                                /\ contexts'[new[i]].parent_context = p
                                /\ new[i] \notin SeqSet(last'.sets) =>
                                      contexts'[new[i]].state_list =
                                         InitialStates(contexts'[new[i]].component.type)
                                /\ Lengths(contexts'[new[i]]) =
                                      HookCalls(contexts'[new[i]].component.type)
         ]_vars

\* C27 witness: the root's render asked again for the second Item of key a;
\* the context that held that position before is detached, with the value
\* its setter stored, and a context made anew holds the position, with the
\* initial value.
C27_Witness ==
    /\ last.op = "materialize"
    /\ last.err = NoErr
    /\ Len(contexts) = 5
    /\ contexts[root_context].subcontext_map[<<"Item", "a">>] = <<2, 5>>
    /\ Detached(contexts, 4)
    /\ contexts[4].component = contexts[5].component
    /\ contexts[4].state_list = <<1>>
    /\ contexts[5].state_list = <<0>>
    /\ 5 \in SeqSet(last.rendered)

----------------------------------------------------------------------------
(* Claims about passes that raise *)

\* the contexts whose materialize the exception of the last pass went through
Aborted(l) ==
    SeqSet(l.rendered) \ {l.finalized[i].ctx : i \in DOMAIN l.finalized}

\* C28, as stated: after a materialize that raised, every context whose
\* materialize was aborted is still stale: its invalidated flag is true or
\* it has no cache.
C28_AbortedPassLeavesStale ==
    last.op = "materialize" /\ last.err # NoErr =>
        \A c \in Aborted(last) :
            contexts[c].invalidated \/ contexts[c].materialized = NoTree

\* C28 witness: a materialize of the root has returned, without rendering,
\* the cache of an earlier state, while the root's state slot holds a value
\* with which its render raises: the pass that raised left the root clean.
C28_StaleCacheServed ==
    /\ last.op = "materialize"
    /\ last.err = NoErr
    /\ last.rendered = <<>>
    /\ last.ret = contexts[root_context].materialized
    /\ last.ret = Box(<<Text(<<0, 0>>)>>)
    /\ contexts[root_context].component.count = 0
    /\ contexts[root_context].state_list = <<3>>
    /\ ~contexts[root_context].invalidated

====
